---- MODULE Spec2Model ----
(***************************************************************************)
(* Verification model of the gpu_sweep package of TrendLab:                *)
(*   - position_scan.py    position / fill simulator                       *)
(*   - indicator_graph.py  IndicatorSpec, dependencies, topological sort   *)
(*   - batched_cache.py    BatchedIndicatorCache                           *)
(*   - signal_batched.py   batched signal generators                       *)
(*   - engine.py           run_sweep, _run_strategy_batch; config.py grids *)
(*   - indicators.py       windowed indicators on short series             *)
(*   - metrics.py          returns, Sharpe, Sortino, drawdown, Calmar,     *)
(*                         trade replays, running maximum                  *)
(*   - kernels/*.py        fused kernels (EMA, Wilder, rolling max and     *)
(*                         std, RSI, trend band) and their reference loops *)
(* Money is kept in integer units of 1/FeeScale so that the fee            *)
(* fees_bps / 10000 is exact.  Bars are numbered from 0 as in the code.    *)
(***************************************************************************)
EXTENDS Integers, Sequences, FiniteSets, TLC

VARIABLES
    \* ---- position_scan.py ----
    num_bars,        \* number of bars of the dataset
    entry_signals,   \* [config -> [bar -> BOOLEAN]]
    exit_signals,    \* [config -> [bar -> BOOLEAN]]
    open_prices,     \* [bar -> price]
    close_prices,    \* [bar -> price]
    fees_bps,        \* fee in basis points per side
    qty_per_trade,   \* shares per trade
    position,        \* [config -> [bar -> 0..1]]
    cash,            \* [config -> [bar -> money]]
    position_qty,    \* [config -> [bar -> shares]]
    equity,          \* [config -> [bar -> money]]
    entry_bars,      \* [config -> [bar -> BOOLEAN]]
    exit_bars,       \* [config -> [bar -> BOOLEAN]]
    t,               \* loop variable of position_scan_with_fills_gpu
    scan_pc,         \* "ready" | "loop" | "done"
    position_only,   \* result of position_scan_gpu, or <<>> before the call
    \* ---- indicator_graph.py ----
    syn_deps,        \* dependencies() of the synthetic identifiers: [id -> set of ids]
    sort_call,       \* last direct call of topological_sort: its argument and outcome
    \* ---- batched_cache.py ----
    workload,        \* the identifiers the callers ask for (cache, or a direct sort)
    cache,           \* self._cache: [IndicatorSpec -> array]
    writes,          \* history: [IndicatorSpec -> number of assignments to self._cache[spec]]
    compute_log,     \* history: the _compute calls of the last ensure_computed
    last_error,      \* exception raised by the last public call, or "none"
    last_get,        \* last get / get_or_none call: its argument and outcome
    \* ---- signal_batched.py ----
    strategy_name,   \* compute_signals_batched: the family
    configs,         \* compute_signals_batched: the list of config dicts
    batch_pc,        \* "off" | "ready" | "ensured" | "done" | "failed"
    entry_out,       \* [config index -> array]: the entry signals returned
    exit_out,        \* [config index -> array]: the exit signals returned
    \* ---- engine.py ----
    symbols,         \* config.symbols: what loading each symbol yields
    strategies,      \* config.strategies: the enabled families, in order
    initial_cash,    \* config.backtest.initial_cash
    batch_size,      \* run_sweep: what estimate_batch_size returned
    symbol_idx,      \* run_sweep: position of the loop over the symbols
    strategy_idx,    \* run_sweep: position of the loop over the strategies
    batch_start,     \* run_sweep: position of the loop over the batches
    all_results,     \* run_sweep: the result rows so far
    sweep_pc,        \* "off" | "symbol" | "batch" | "done" | "raised"
    sweep_error,     \* the stage whose exception left run_sweep, or "none"
    sweep_log,       \* history: per batch run, the identifiers its cache computed
    \* ---- metrics.py ----
    metrics_args,    \* compute_all_metrics_gpu: equity of one config, initial_cash, years
    metrics,         \* the dict it returned, or <<>> before the call
    trade_stats,     \* the trade metrics of the fills of a scan, or <<>>
    running_max,     \* _running_max_gpu called on its own: argument and result
    \* ---- kernels/*.py, indicators.py ----
    kern_args,       \* the inputs of a kernel and of its reference loop
    kern_out,        \* what the kernel returned, or <<>> before the call
    ref_out          \* what the reference loop returned or raised, or <<>>

scanVars == <<num_bars, entry_signals, exit_signals, open_prices, close_prices,
              fees_bps, qty_per_trade, position, cash, position_qty, equity,
              entry_bars, exit_bars, t, scan_pc, position_only>>

graphVars == <<syn_deps, sort_call>>

cacheVars == <<workload, cache, writes, compute_log, last_error, last_get>>

batchVars == <<strategy_name, configs, batch_pc, entry_out, exit_out>>

sweepVars == <<symbols, strategies, initial_cash, batch_size, symbol_idx,
               strategy_idx, batch_start, all_results, sweep_pc, sweep_error,
               sweep_log>>

metricsVars == <<metrics_args, metrics, trade_stats, running_max>>

kernelVars == <<kern_args, kern_out, ref_out>>

vars == <<scanVars, graphVars, cacheVars, batchVars, sweepVars, metricsVars,
          kernelVars>>

(***************************************************************************)
(* Bounds of the model                                                     *)
(***************************************************************************)
MaxBars == 4
MaxPeriod == 1
MaxSynNodes == 3
MaxSynEdges == 3
MaxSigPeriod == 2
LongBars == 17
MaxCurveLen == 3
MaxEquity == 2
MaxYears == 2
MaxKernelBars == 5
MaxRowLen == 5
MaxPrice == 3
MaxWindow == 3

(***************************************************************************)
(* Program constants                                                       *)
(***************************************************************************)
FeeScale == 10000
InitialCash == 100000
SarAtrPeriod == 14
SarWarmup == 15
MinSweepBars == 50
EpsilonInverse == 1000

\* a batch of two configurations: the arrays are [num_configs, num_bars]
Configs == {1, 2}
Bars == 0..(num_bars - 1)

\* signal rows the second configuration of the batch is driven with
StockEntry(j, b) == IF j = 1 THEN TRUE ELSE IF j = 2 THEN b % 2 = 0 ELSE FALSE
StockExit(j, b) == IF j = 1 THEN TRUE ELSE IF j = 2 THEN b % 2 = 1 ELSE FALSE

\* the two price paths the simulator is driven with: open and close differ
\* from each other and from bar to bar
OpenPath(k, b) == IF k = 1 THEN 10 + 2 * b ELSE 20 - 3 * b
ClosePath(k, b) == IF k = 1 THEN 11 + 2 * b ELSE 19 - 3 * b

(***************************************************************************)
(* position_scan_gpu                                                       *)
(***************************************************************************)
BoolToInt(b) == IF b THEN 1 ELSE 0

\* one iteration of the loop of position_scan_gpu for one configuration:
\* the value stored in position[:, t]
ScanTransition(prev_pos, prev_entry, prev_exit) ==
    LET enter == (prev_pos = 0) /\ prev_entry
        exit_ == (prev_pos = 1) /\ prev_exit
    IN  prev_pos + BoolToInt(enter) - BoolToInt(exit_)

RECURSIVE ScanRow(_, _, _, _)
\* position[c, 0..n-1] as the loop of position_scan_gpu leaves it, as a
\* function over 0..n-1, built from bar 0 upwards
ScanRow(entry, exit, n, upto) ==
    IF upto = 0
    THEN [b \in 0..(n - 1) |-> 0]
    ELSE LET prev == ScanRow(entry, exit, n, upto - 1)
         IN  [prev EXCEPT ![upto] =
                 ScanTransition(prev[upto - 1], entry[upto - 1], exit[upto - 1])]

PositionScanGpu(entry, exit, n) ==
    [c \in Configs |-> ScanRow(entry[c], exit[c], n, n - 1)]

(***************************************************************************)
(* position_scan_with_fills_gpu                                            *)
(***************************************************************************)
\* mutant of EnterMask: the entry signal fills whatever the previous state
EnterMaskAnyState(c, bar) == entry_signals[c][bar - 1]

\* line 130: enter = (prev_pos == 0) & prev_entry
EnterMask(c, bar) == (position[c][bar - 1] = 0) /\ entry_signals[c][bar - 1]

\* an exit mask that tests the position after the entry fill of the same bar
ExitMaskAfterEntry(c, bar) ==
    (position[c][bar - 1] = 1 \/ EnterMask(c, bar)) /\ exit_signals[c][bar - 1]

\* mutant of ExitMask: the exit signal fills whatever the previous state
ExitMaskAnyState(c, bar) == exit_signals[c][bar - 1]

\* line 143: exit_ = (prev_pos == 1) & prev_exit
ExitMask(c, bar) == (position[c][bar - 1] = 1) /\ exit_signals[c][bar - 1]

\* mutant of FillPrice: the fill uses the open of the bar of the signal
FillPriceSignalBar(bar) == open_prices[bar - 1]

\* lines 132 and 145: fill_price = open_prices[:, t]
FillPrice(bar) == open_prices[bar]

\* lines 133-137: cash after an entry fill
CashAfterEntry(c0, bar) ==
    LET fill_cost == qty_per_trade * FillPrice(bar) * FeeScale
        fill_fees == qty_per_trade * FillPrice(bar) * fees_bps
    IN  c0 - fill_cost - fill_fees

\* lines 146-150: cash after an exit fill of q shares
CashAfterExit(c0, q, bar) ==
    LET fill_proceeds == q * FillPrice(bar) * FeeScale
        fill_fees == q * FillPrice(bar) * fees_bps
    IN  c0 + fill_proceeds - fill_fees

\* a mark-to-market at the open of the bar
MarkToMarketAtOpen(c0, q, bar) == c0 + q * open_prices[bar] * FeeScale

\* line 156: equity[:, t] = cash[:, t] + position_qty[:, t] * close_prices[:, t]
MarkToMarket(c0, q, bar) == c0 + q * close_prices[bar] * FeeScale

ScanInputs ==
    /\ num_bars \in 1..MaxBars
    /\ \E e1 \in [0..(num_bars - 1) -> BOOLEAN], x1 \in [0..(num_bars - 1) -> BOOLEAN],
          j \in 1..3 :
          /\ entry_signals = [c \in Configs |->
                IF c = 1 THEN e1 ELSE [b \in 0..(num_bars - 1) |-> StockEntry(j, b)]]
          /\ exit_signals = [c \in Configs |->
                IF c = 1 THEN x1 ELSE [b \in 0..(num_bars - 1) |-> StockExit(j, b)]]
    /\ \E k \in 1..2 :
          /\ open_prices = [b \in 0..(num_bars - 1) |-> OpenPath(k, b)]
          /\ close_prices = [b \in 0..(num_bars - 1) |-> ClosePath(k, b)]
    /\ fees_bps \in {0, 10}
    /\ qty_per_trade \in {1, 100}

ScanIdle ==
    /\ position = <<>>
    /\ cash = <<>>
    /\ position_qty = <<>>
    /\ equity = <<>>
    /\ entry_bars = <<>>
    /\ exit_bars = <<>>
    /\ t = 0
    /\ scan_pc = "ready"
    /\ position_only = <<>>

ScanInit == ScanInputs /\ ScanIdle

scanInputVars == <<num_bars, entry_signals, exit_signals, open_prices,
                   close_prices, fees_bps, qty_per_trade>>

\* position_scan_gpu(entry_signals, exit_signals), lines 37-62
RunPositionScanGpu ==
    /\ scan_pc \in {"ready", "done"}
    /\ position_only = <<>>
    /\ position_only' = PositionScanGpu(entry_signals, exit_signals, num_bars)
    /\ UNCHANGED <<scanInputVars, position, cash, position_qty, equity,
                   entry_bars, exit_bars, t, scan_pc>>
    /\ UNCHANGED <<graphVars, cacheVars, batchVars, sweepVars, metricsVars, kernelVars>>

\* lines 96-115: array initialisation and the first bar
FillsInit ==
    /\ scan_pc = "ready"
    /\ position' = [c \in Configs |-> [b \in Bars |-> 0]]
    /\ cash' = [c \in Configs |-> [b \in Bars |-> InitialCash * FeeScale]]
    /\ position_qty' = [c \in Configs |-> [b \in Bars |-> 0]]
    /\ equity' = [c \in Configs |->
                    [b \in Bars |-> IF b = 0 THEN InitialCash * FeeScale ELSE 0]]
    /\ entry_bars' = [c \in Configs |-> [b \in Bars |-> FALSE]]
    /\ exit_bars' = [c \in Configs |-> [b \in Bars |-> FALSE]]
    /\ t' = 1
    /\ scan_pc' = "loop"
    /\ UNCHANGED <<scanInputVars, position_only>>
    /\ UNCHANGED <<graphVars, cacheVars, batchVars, sweepVars, metricsVars, kernelVars>>

\* lines 118-156: one iteration of the bar loop, for all configurations
FillsStep ==
    /\ scan_pc = "loop"
    /\ t < num_bars
    /\ LET enter == [c \in Configs |-> EnterMask(c, t)]
           anyEnter == \E c \in Configs : enter[c]
           exit_ == [c \in Configs |-> ExitMask(c, t)]
           anyExit == \E c \in Configs : exit_[c]
           \* lines 120-122 carry forward, lines 131-140 entry fills
           cash1 == [c \in Configs |->
                        IF anyEnter /\ enter[c]
                        THEN CashAfterEntry(cash[c][t - 1], t)
                        ELSE cash[c][t - 1]]
           qty1 == [c \in Configs |->
                        IF anyEnter /\ enter[c]
                        THEN qty_per_trade ELSE position_qty[c][t - 1]]
           pos1 == [c \in Configs |->
                        IF anyEnter /\ enter[c] THEN 1 ELSE position[c][t - 1]]
           \* lines 144-153 exit fills
           cash2 == [c \in Configs |->
                        IF anyExit /\ exit_[c]
                        THEN CashAfterExit(cash1[c], qty1[c], t)
                        ELSE cash1[c]]
           qty2 == [c \in Configs |->
                        IF anyExit /\ exit_[c] THEN 0 ELSE qty1[c]]
           pos2 == [c \in Configs |->
                        IF anyExit /\ exit_[c] THEN 0 ELSE pos1[c]]
       IN  /\ cash' = [c \in Configs |-> [cash[c] EXCEPT ![t] = cash2[c]]]
           /\ position_qty' =
                 [c \in Configs |-> [position_qty[c] EXCEPT ![t] = qty2[c]]]
           /\ position' = [c \in Configs |-> [position[c] EXCEPT ![t] = pos2[c]]]
           /\ entry_bars' =
                 [c \in Configs |->
                     [entry_bars[c] EXCEPT ![t] = anyEnter /\ enter[c]]]
           /\ exit_bars' =
                 [c \in Configs |->
                     [exit_bars[c] EXCEPT ![t] = anyExit /\ exit_[c]]]
           /\ equity' =
                 [c \in Configs |->
                     [equity[c] EXCEPT ![t] = MarkToMarket(cash2[c], qty2[c], t)]]
    /\ t' = t + 1
    /\ UNCHANGED <<scanInputVars, scan_pc, position_only>>
    /\ UNCHANGED <<graphVars, cacheVars, batchVars, sweepVars, metricsVars, kernelVars>>

\* line 158: return position, equity, entry_bars, exit_bars
FillsReturn ==
    /\ scan_pc = "loop"
    /\ t = num_bars
    /\ scan_pc' = "done"
    /\ UNCHANGED <<scanInputVars, position, cash, position_qty, equity,
                   entry_bars, exit_bars, t, position_only>>
    /\ UNCHANGED <<graphVars, cacheVars, batchVars, sweepVars, metricsVars, kernelVars>>

(***************************************************************************)
(* metrics.py: the trade metrics, replayed from the fills of the scan      *)
(***************************************************************************)
\* lines 276-279 and 338-341: net_pnl = gross_pnl - fees of a trade entered
\* at entry_price and left at exit_price, in units of 1/FeeScale
NetPnl(entry_price, exit_price) ==
    (exit_price - entry_price) * qty_per_trade * FeeScale
        - (entry_price + exit_price) * qty_per_trade * fees_bps

RECURSIVE TradeReplay(_, _, _, _)
\* the loops of win_rate_gpu (267-282) and profit_factor_gpu (334-352): the
\* accumulators of one configuration after the bars 0 .. upto-1
TradeReplay(entries, exits, prices, upto) ==
    IF upto = 0
    THEN [entry_price |-> 0, num_trades |-> 0, num_wins |-> 0,
          gross_profit |-> 0, gross_loss |-> 0]
    ELSE CHOOSE r \in
            {[entry_price |-> ep,
              num_trades |-> prev.num_trades + (IF exits[upto - 1] THEN 1 ELSE 0),
              num_wins |-> prev.num_wins +
                  (IF exits[upto - 1] /\ NetPnl(ep, prices[upto - 1]) > 0
                   THEN 1 ELSE 0),
              gross_profit |-> prev.gross_profit +
                  (IF exits[upto - 1] /\ NetPnl(ep, prices[upto - 1]) > 0
                   THEN NetPnl(ep, prices[upto - 1]) ELSE 0),
              gross_loss |-> prev.gross_loss +
                  (IF exits[upto - 1] /\ NetPnl(ep, prices[upto - 1]) <= 0
                   THEN 0 - NetPnl(ep, prices[upto - 1]) ELSE 0)] :
             <<prev, ep>> \in
                {<<q, IF entries[upto - 1] THEN prices[upto - 1] ELSE q.entry_price>> :
                    q \in {TradeReplay(entries, exits, prices, upto - 1)}}} : TRUE

\* win_rate_gpu, line 285: num_wins / num_trades, 0.0 without trades
WinRateGpu(replay) ==
    IF replay.num_trades > 0
    THEN [num |-> replay.num_wins, den |-> replay.num_trades]
    ELSE [num |-> 0, den |-> 1]

\* profit_factor_gpu, lines 354-359
ProfitFactorGpu(replay) ==
    IF replay.gross_loss > 0
    THEN [kind |-> "ratio", num |-> replay.gross_profit, den |-> replay.gross_loss]
    ELSE IF replay.gross_profit > 0
    THEN [kind |-> "inf", num |-> 0, den |-> 1]
    ELSE [kind |-> "ratio", num |-> 0, den |-> 1]

\* num_trades_gpu, line 373: cp.sum(exit_bars, axis=1)
NumTradesGpu(exits) == Cardinality({b \in DOMAIN exits : exits[b]})

\* compute_all_metrics_gpu, lines 468-473, on what the scan returned
ComputeTradeMetrics ==
    /\ scan_pc = "done"
    /\ trade_stats = <<>>
    /\ trade_stats' =
          [c \in Configs |->
              CHOOSE m \in
                 {[win_rate |-> WinRateGpu(replay),
                   profit_factor |-> ProfitFactorGpu(replay),
                   gross_profit |-> replay.gross_profit,
                   gross_loss |-> replay.gross_loss,
                   num_trades |-> NumTradesGpu(exit_bars[c])] :
                  replay \in {TradeReplay(entry_bars[c], exit_bars[c],
                                          open_prices, num_bars)}} : TRUE]
    /\ UNCHANGED <<metrics_args, metrics, running_max>>
    /\ UNCHANGED <<scanVars, graphVars, cacheVars, batchVars, sweepVars, kernelVars>>

ScanNext ==
    RunPositionScanGpu \/ FillsInit \/ FillsStep \/ FillsReturn \/ ComputeTradeMetrics

(***************************************************************************)
(* indicator_graph.py: IndicatorType, IndicatorSpec, dependencies          *)
(***************************************************************************)
Periods == 1..MaxPeriod

\* multiplier x 100, as collect_strategy_indicators stores it
MultInts == {200}

\* kinds whose params are one period
OnePeriodTypes ==
    {"SMA", "EMA", "ROLLING_MAX", "ROLLING_MIN", "ROLLING_MAX_HIGH",
     "ROLLING_MIN_LOW", "DONCHIAN_UPPER", "DONCHIAN_LOWER", "ATR_SMA",
     "ATR_WILDER", "BOLLINGER_MIDDLE", "BOLLINGER_UPPER", "BOLLINGER_LOWER",
     "BOLLINGER_BANDWIDTH", "ROLLING_STD", "RSI", "AROON_UP", "AROON_DOWN",
     "AROON_OSCILLATOR", "KELTNER_MIDDLE", "STOCHASTIC_K", "DMI_PLUS",
     "DMI_MINUS"}

\* kinds whose params are (period, multiplier x 100)
PeriodMultTypes ==
    {"SUPERTREND", "SUPERTREND_UPPER", "SUPERTREND_LOWER", "SUPERTREND_DIRECTION",
     "BOLLINGER_UPPER", "BOLLINGER_LOWER"}

\* kinds whose params are two periods
TwoPeriodTypes ==
    {"MACD_LINE", "STOCHASTIC_D", "ADX", "KELTNER_UPPER", "KELTNER_LOWER"}

\* kinds whose params are two periods and a multiplier x 100
TwoPeriodMultTypes == {"KELTNER_UPPER", "KELTNER_LOWER"}

\* kinds whose params are three periods
ThreePeriodTypes == {"MACD_SIGNAL", "MACD_HISTOGRAM"}

\* the members of the enumeration IndicatorType
IndicatorType ==
    {"TRUE_RANGE"} \cup OnePeriodTypes \cup PeriodMultTypes \cup TwoPeriodTypes
        \cup ThreePeriodTypes

IndicatorSpec(type, params) == [type |-> type, params |-> params]

\* every IndicatorSpec of a declared kind over the bounded parameters
DeclaredSpecs ==
    {IndicatorSpec("TRUE_RANGE", <<>>)}
    \cup {IndicatorSpec(ty, <<p>>) : ty \in OnePeriodTypes, p \in Periods}
    \cup {IndicatorSpec(ty, <<p, m>>) : ty \in PeriodMultTypes, p \in Periods, m \in MultInts}
    \cup {IndicatorSpec(ty, <<p, q>>) : ty \in TwoPeriodTypes, p \in Periods, q \in Periods}
    \cup UNION {{IndicatorSpec(ty, <<p, q, m>>) : ty \in TwoPeriodMultTypes, p \in Periods, q \in Periods}
                : m \in MultInts}
    \cup UNION {{IndicatorSpec(ty, <<p, q, r>>) : ty \in ThreePeriodTypes, p \in Periods, q \in Periods}
                : r \in Periods}

\* synthetic identifiers, whose dependencies() is the table syn_deps
SynSpec(i) == IndicatorSpec("SYNTHETIC", <<i>>)

RECURSIVE SetToSeq(_)
\* the elements of a set of numbers, in increasing order
SetToSeq(S) ==
    IF S = {} THEN <<>>
    ELSE LET m == CHOOSE x \in S : \A y \in S : x <= y
         IN  <<m>> \o SetToSeq(S \ {m})

SynDependencies(spec) ==
    LET ids == SetToSeq(syn_deps[spec.params[1]])
    IN  [k \in 1..Len(ids) |-> SynSpec(ids[k])]

\* IndicatorSpec.dependencies(), lines 102-190, for the declared kinds
DeclaredDependencies(spec) ==
    LET ty == spec.type
        ps == spec.params
    IN  CASE ty = "ATR_SMA" -> <<IndicatorSpec("TRUE_RANGE", <<>>)>>
          [] ty = "ATR_WILDER" -> <<IndicatorSpec("TRUE_RANGE", <<>>)>>
          [] ty = "SUPERTREND" -> <<IndicatorSpec("ATR_WILDER", <<ps[1]>>)>>
          [] ty = "DONCHIAN_UPPER" -> <<IndicatorSpec("ROLLING_MAX_HIGH", <<ps[1]>>)>>
          [] ty = "DONCHIAN_LOWER" -> <<IndicatorSpec("ROLLING_MIN_LOW", <<ps[1]>>)>>
          [] ty = "BOLLINGER_MIDDLE" -> <<IndicatorSpec("SMA", <<ps[1]>>)>>
          [] ty \in {"BOLLINGER_UPPER", "BOLLINGER_LOWER"} ->
                <<IndicatorSpec("BOLLINGER_MIDDLE", <<ps[1]>>),
                  IndicatorSpec("ROLLING_STD", <<ps[1]>>)>>
          [] ty = "MACD_LINE" ->
                <<IndicatorSpec("EMA", <<ps[1]>>), IndicatorSpec("EMA", <<ps[2]>>)>>
          [] ty = "MACD_SIGNAL" -> <<IndicatorSpec("MACD_LINE", <<ps[1], ps[2]>>)>>
          [] ty = "MACD_HISTOGRAM" ->
                <<IndicatorSpec("MACD_LINE", <<ps[1], ps[2]>>),
                  IndicatorSpec("MACD_SIGNAL", <<ps[1], ps[2], ps[3]>>)>>
          [] ty = "KELTNER_MIDDLE" -> <<IndicatorSpec("EMA", <<ps[1]>>)>>
          [] ty \in {"KELTNER_UPPER", "KELTNER_LOWER"} ->
                <<IndicatorSpec("KELTNER_MIDDLE", <<ps[1]>>),
                  IndicatorSpec("ATR_WILDER", <<ps[2]>>)>>
          [] ty = "STOCHASTIC_D" -> <<IndicatorSpec("STOCHASTIC_K", <<ps[1]>>)>>
          [] ty = "AROON_OSCILLATOR" ->
                <<IndicatorSpec("AROON_UP", <<ps[1]>>),
                  IndicatorSpec("AROON_DOWN", <<ps[1]>>)>>
          [] ty = "ADX" ->
                <<IndicatorSpec("DMI_PLUS", <<ps[1]>>),
                  IndicatorSpec("DMI_MINUS", <<ps[1]>>)>>
          [] OTHER -> <<>>

\* spec.dependencies(): the list, in the order the code appends
Dependencies(spec) ==
    IF spec.type = "SYNTHETIC" THEN SynDependencies(spec)
    ELSE DeclaredDependencies(spec)

Range(seq) == {seq[k] : k \in 1..Len(seq)}

DepSet(spec) == Range(Dependencies(spec))

RECURSIVE ExpandLoop(_, _)
\* the while loop of expand_dependencies, lines 206-211: result and the
\* worklist; the order of the worklist does not change the set returned
ExpandLoop(result, queue) ==
    IF queue = {} THEN result
    ELSE LET spec == CHOOSE x \in queue : TRUE
             fresh == DepSet(spec) \ result
         IN  ExpandLoop(result \cup fresh, (queue \ {spec}) \cup fresh)

\* the request and its direct dependencies only
ExpandOneLevel(specs) == specs \cup UNION {DepSet(s) : s \in specs}

\* expand_dependencies(specs), lines 193-213
ExpandDependencies(specs) == ExpandLoop(specs, specs)

RECURSIVE PermSeqs(_)
\* every order in which the elements of a set can be iterated
PermSeqs(S) ==
    IF S = {} THEN {<<>>}
    ELSE UNION {{<<x>> \o p : p \in PermSeqs(S \ {x})} : x \in S}

\* number of times dep occurs in the list deps[spec] (lines 238-242 append
\* the dependent once per occurrence)
EdgeCount(deps, spec, dep) ==
    Cardinality({k \in 1..Len(deps[spec]) : deps[spec][k] = dep})

\* lines 235-242: in_degree of every spec, counting the dependencies that
\* are in all_specs; deps is dependencies() of every spec of all_specs
InDegree(deps) ==
    [spec \in DOMAIN deps |->
        Cardinality({k \in 1..Len(deps[spec]) : deps[spec][k] \in DOMAIN deps})]

RECURSIVE KahnLoop(_, _, _, _)
\* the while loop of topological_sort, lines 248-257: every list it can
\* leave in result.  The order in which the dependents of one spec were
\* appended follows the iteration order of the set all_specs, which the
\* language does not fix, so every order of the newly ready specs is taken.
KahnLoop(deps, queue, in_degree, result) ==
    IF queue = <<>> THEN {result}
    ELSE LET spec == Head(queue)
             next_degree == [s \in DOMAIN deps |->
                                in_degree[s] - EdgeCount(deps, s, spec)]
             ready == {s \in DOMAIN deps : in_degree[s] # 0 /\ next_degree[s] = 0}
         IN  UNION {KahnLoop(deps, Tail(queue) \o p, next_degree,
                             Append(result, spec)) : p \in PermSeqs(ready)}

\* lines 232-257: the lists the loop can produce for the argument specs
KahnResults(specs) ==
    LET all_specs == ExpandDependencies(specs)
        deps == [s \in all_specs |-> Dependencies(s)]
        in_degree == InDegree(deps)
        zero == {s \in all_specs : in_degree[s] = 0}
    IN  UNION {KahnLoop(deps, q, in_degree, <<>>) : q \in PermSeqs(zero)}

\* an outcome that hands back whatever the loop emitted
SortOutcomeSilent(specs, result) ==
    [raised |-> FALSE, result |-> result, missing |-> {}]

\* lines 259-264: the outcome of topological_sort(specs) when the loop left
\* result: the list, or ValueError naming all_specs - set(result)
SortOutcome(specs, result) ==
    LET all_specs == ExpandDependencies(specs)
    IN  IF Len(result) # Cardinality(all_specs)
        THEN [raised |-> TRUE, result |-> <<>>, missing |-> all_specs \ Range(result)]
        ELSE [raised |-> FALSE, result |-> result, missing |-> {}]

\* topological_sort(specs), lines 216-264: every outcome it can have
TopologicalSort(specs) == {SortOutcome(specs, r) : r \in KahnResults(specs)}

(***************************************************************************)
(* Arrays.  An array element is modelled by what it is computed from: the  *)
(* set of bars whose prices were read to produce it.  The element is NaN   *)
(* when the set holds NaNBar; arithmetic on NaN gives NaN, so the mark is  *)
(* carried by the union like any other bar.  A constant (0, False) reads   *)
(* nothing.                                                                *)
(***************************************************************************)
NaNBar == 0 - 1

NaN == {NaNBar}

IsKnown(cell) == NaNBar \notin cell

\* bars of the price data an element was computed from
BarsRead(cell) == cell \ {NaNBar}

\* self.high / self.low / self.close: element b is the price of bar b
Price == [b \in Bars |-> {b}]

\* cp.full(..., cp.nan) / result.fill(cp.nan)
FullNaN == [b \in Bars |-> NaN]

\* cp.zeros(...): a constant array
Zeros == [b \in Bars |-> {}]

\* elementwise arithmetic or comparison of two arrays
Combine(a, b) == [k \in Bars |-> a[k] \cup b[k]]

\* what a loop over data[lo..hi] reads
Reads(data, lo, hi) == UNION {data[j] : j \in lo..hi}

\* a shift in the other direction: element b would be taken from b + shift
RollBackward(arr, shift) == [b \in Bars |-> arr[(b + shift) % num_bars]]

\* cp.roll(arr, shift): element b is taken from (b - shift) mod num_bars, so
\* the first shift elements are the last ones of arr
Roll(arr, shift) == [b \in Bars |-> arr[(b - shift) % num_bars]]

\* an assignment of the whole array: no bar is masked
MaskedNowhere(arr, warmup) == arr

\* result[i, warmup:] = arr[warmup:] on a result of zeros
Masked(arr, warmup) == [b \in Bars |-> IF b >= warmup THEN arr[b] ELSE {}]

\* a mean of the bars there are, when there are fewer than window
SmaOfAvailableBars(data, window) == [b \in Bars |-> Reads(data, 0, b)]

\* indicators.py sma_gpu, lines 20-54: a difference of cumulative sums
SmaGpu(data, window) ==
    [b \in Bars |-> IF b < window - 1 THEN NaN ELSE Reads(data, 0, b)]

\* kernels/ema.py ema_kernel: SMA seed at window-1, then the recursion
EmaKernel(data, window) ==
    IF num_bars < window THEN FullNaN
    ELSE [b \in Bars |-> IF b < window - 1 THEN NaN ELSE Reads(data, 0, b)]

\* kernels/ema.py wilder_smooth_kernel
WilderSmoothKernel(data, window) ==
    IF num_bars < window THEN FullNaN
    ELSE [b \in Bars |-> IF b < window - 1 THEN NaN ELSE Reads(data, 0, b)]

\* kernels/rolling.py rolling_max_kernel: the window ending at the bar
RollingMaxKernel(data, window) ==
    IF num_bars < window THEN FullNaN
    ELSE [b \in Bars |-> IF b < window - 1 THEN NaN
                         ELSE Reads(data, b - window + 1, b)]

\* kernels/rolling.py rolling_min_kernel
RollingMinKernel(data, window) ==
    IF num_bars < window THEN FullNaN
    ELSE [b \in Bars |-> IF b < window - 1 THEN NaN
                         ELSE Reads(data, b - window + 1, b)]

\* kernels/rolling.py rolling_std_kernel
RollingStdKernel(data, window) ==
    IF num_bars < window THEN FullNaN
    ELSE [b \in Bars |-> IF b < window - 1 THEN NaN
                         ELSE Reads(data, b - window + 1, b)]

\* kernels/rolling.py donchian_upper_kernel: the lookback bars before the bar
DonchianUpperKernel(data, lookback) ==
    IF num_bars <= lookback THEN FullNaN
    ELSE [b \in Bars |-> IF b < lookback THEN NaN
                         ELSE Reads(data, b - lookback, b - 1)]

\* kernels/rolling.py donchian_lower_kernel
DonchianLowerKernel(data, lookback) ==
    IF num_bars <= lookback THEN FullNaN
    ELSE [b \in Bars |-> IF b < lookback THEN NaN
                         ELSE Reads(data, b - lookback, b - 1)]

\* indicators.py true_range_gpu, lines 218-269
TrueRangeGpu ==
    LET hl == Combine(Price, Price)
        rolled == Roll(Price, 1)
        prev_close == [rolled EXCEPT ![0] = Price[0]]
        tr == Combine(hl, Combine(Combine(Price, prev_close), Combine(Price, prev_close)))
    IN  [tr EXCEPT ![0] = hl[0]]

\* indicators.py atr_gpu, lines 272-291
AtrGpu(window) == SmaGpu(TrueRangeGpu, window)

\* kernels/rsi.py rsi_kernel: first value at bar period
RsiKernel(period) ==
    IF num_bars <= period THEN FullNaN
    ELSE [b \in Bars |-> IF b < period THEN NaN ELSE Reads(Price, 0, b)]

\* kernels/supertrend.py supertrend_kernel: (supertrend, direction, upper,
\* lower).  direction is 0 through the first valid bar atr_period - 1.
SupertrendKernel(atr_period) ==
    LET start == atr_period - 1
        band == IF num_bars < atr_period THEN FullNaN
                ELSE [b \in Bars |-> IF b < start THEN NaN ELSE Reads(Price, 0, b)]
        dir == IF num_bars < atr_period THEN Zeros
               ELSE [b \in Bars |-> IF b <= start THEN {} ELSE Reads(Price, 0, b)]
    IN  [st |-> band, direction |-> dir, upper |-> band, lower |-> band]

\* batched_cache.py _compute_stochastic_k, lines 355-371
ComputeStochasticK(k_period) ==
    [b \in Bars |-> IF b < k_period - 1 THEN NaN
                    ELSE Reads(Price, b - k_period + 1, b)]

\* indicators.py aroon_gpu, lines 622-667: aroon_up and aroon_down alike
AroonGpu(period) ==
    [b \in Bars |-> IF b < period THEN NaN ELSE Reads(Price, b - period, b)]

\* batched_cache.py _compute_dmi_adx, lines 373-444
ComputeDmiAdx(di_period, adx_period) ==
    LET tr == TrueRangeGpu
        dm == [b \in Bars |-> IF b = 0 THEN {} ELSE Price[b] \cup Price[b - 1]]
        smooth(x) == IF num_bars >= di_period
                     THEN [b \in Bars |-> IF b < di_period - 1 THEN NaN
                                          ELSE Reads(x, 0, b)]
                     ELSE FullNaN
        plus_di == Combine(smooth(dm), smooth(tr))
        minus_di == Combine(smooth(dm), smooth(tr))
        dx == Combine(Combine(plus_di, minus_di), Combine(plus_di, minus_di))
        start_idx == di_period + adx_period - 1
        adx == IF num_bars >= di_period + adx_period
               THEN [b \in Bars |-> IF b < start_idx THEN NaN
                                    ELSE Reads(dx, di_period - 1, b)]
               ELSE FullNaN
    IN  [plus_di |-> plus_di, minus_di |-> minus_di, adx |-> adx]

(***************************************************************************)
(* batched_cache.py: BatchedIndicatorCache                                 *)
(***************************************************************************)
\* the dictionary self._cache with nothing in it
EmptyCache == [s \in {} |-> <<>>]

\* self._cache[key] = value
Put(c, key, value) ==
    [s \in DOMAIN c \cup {key} |-> IF s = key THEN value ELSE c[s]]

\* a _compute call that returned value and left the dictionary as c
Returned(value, c) ==
    [raised |-> "none", ret |-> value, cache |-> c, written |-> <<>>, nested |-> <<>>]

\* a _compute call that raised
Raised(error, c) ==
    [raised |-> error, ret |-> <<>>, cache |-> c, written |-> <<>>, nested |-> <<>>]

\* self.get(...) inside _compute: both operands, or KeyError
FromCached(c, a, b) ==
    IF {a, b} \subseteq DOMAIN c THEN Returned(Combine(c[a], c[b]), c)
    ELSE Raised("KeyError", c)

\* _compute, SUPERTREND branch, lines 198-210: the kernel runs and the three
\* components are written into the dictionary before the line is returned
ComputeSupertrend(params, c) ==
    LET k == SupertrendKernel(params[1])
        direction == IndicatorSpec("SUPERTREND_DIRECTION", params)
        upper == IndicatorSpec("SUPERTREND_UPPER", params)
        lower == IndicatorSpec("SUPERTREND_LOWER", params)
        c1 == Put(Put(Put(c, direction, k.direction), upper, k.upper), lower, k.lower)
    IN  [raised |-> "none", ret |-> k.st, cache |-> c1,
         written |-> <<direction, upper, lower>>, nested |-> <<>>]

\* _compute, SUPERTREND_DIRECTION / _UPPER / _LOWER branches, lines 212-229:
\* a nested self._compute(base_spec) whose return value is dropped
ComputeSupertrendPart(spec, c) ==
    LET base_spec == IndicatorSpec("SUPERTREND", spec.params)
        r == ComputeSupertrend(spec.params, c)
    IN  IF base_spec \notin DOMAIN c
        THEN [raised |-> "none", ret |-> r.cache[spec], cache |-> r.cache,
              written |-> r.written, nested |-> <<base_spec>>]
        ELSE IF spec \in DOMAIN c THEN Returned(c[spec], c)
        ELSE Raised("KeyError", c)

\* _compute(spec), lines 126-353, run on the dictionary c
Compute(spec, c) ==
    LET ty == spec.type
        ps == spec.params
    IN  CASE ty = "SMA" -> Returned(SmaGpu(Price, ps[1]), c)
          [] ty = "EMA" -> Returned(EmaKernel(Price, ps[1]), c)
          [] ty \in {"ROLLING_MAX", "ROLLING_MAX_HIGH"} ->
                Returned(RollingMaxKernel(Price, ps[1]), c)
          [] ty \in {"ROLLING_MIN", "ROLLING_MIN_LOW"} ->
                Returned(RollingMinKernel(Price, ps[1]), c)
          [] ty = "DONCHIAN_UPPER" -> Returned(DonchianUpperKernel(Price, ps[1]), c)
          [] ty = "DONCHIAN_LOWER" -> Returned(DonchianLowerKernel(Price, ps[1]), c)
          [] ty = "TRUE_RANGE" -> Returned(TrueRangeGpu, c)
          [] ty = "ATR_SMA" -> Returned(AtrGpu(ps[1]), c)
          [] ty = "ATR_WILDER" ->
                LET tr_spec == IndicatorSpec("TRUE_RANGE", <<>>)
                IN  IF tr_spec \in DOMAIN c
                    THEN Returned(WilderSmoothKernel(c[tr_spec], ps[1]), c)
                    ELSE [raised |-> "none",
                          ret |-> WilderSmoothKernel(TrueRangeGpu, ps[1]),
                          cache |-> Put(c, tr_spec, TrueRangeGpu),
                          written |-> <<tr_spec>>, nested |-> <<>>]
          [] ty = "SUPERTREND" -> ComputeSupertrend(ps, c)
          [] ty \in {"SUPERTREND_DIRECTION", "SUPERTREND_UPPER", "SUPERTREND_LOWER"} ->
                ComputeSupertrendPart(spec, c)
          [] ty = "ROLLING_STD" -> Returned(RollingStdKernel(Price, ps[1]), c)
          [] ty = "BOLLINGER_MIDDLE" ->
                LET sma_spec == IndicatorSpec("SMA", <<ps[1]>>)
                IN  IF sma_spec \in DOMAIN c THEN Returned(c[sma_spec], c)
                    ELSE Returned(SmaGpu(Price, ps[1]), c)
          [] ty \in {"BOLLINGER_UPPER", "BOLLINGER_LOWER"} ->
                FromCached(c, IndicatorSpec("BOLLINGER_MIDDLE", <<ps[1]>>),
                              IndicatorSpec("ROLLING_STD", <<ps[1]>>))
          [] ty = "RSI" -> Returned(RsiKernel(ps[1]), c)
          [] ty = "MACD_LINE" ->
                FromCached(c, IndicatorSpec("EMA", <<ps[1]>>),
                              IndicatorSpec("EMA", <<ps[2]>>))
          [] ty = "MACD_SIGNAL" ->
                LET line == IndicatorSpec("MACD_LINE", <<ps[1], ps[2]>>)
                IN  IF line \in DOMAIN c THEN Returned(EmaKernel(c[line], ps[3]), c)
                    ELSE Raised("KeyError", c)
          [] ty = "MACD_HISTOGRAM" ->
                FromCached(c, IndicatorSpec("MACD_LINE", <<ps[1], ps[2]>>),
                              IndicatorSpec("MACD_SIGNAL", <<ps[1], ps[2], ps[3]>>))
          [] ty \in {"AROON_UP", "AROON_DOWN"} -> Returned(AroonGpu(ps[1]), c)
          [] ty = "AROON_OSCILLATOR" ->
                FromCached(c, IndicatorSpec("AROON_UP", <<ps[1]>>),
                              IndicatorSpec("AROON_DOWN", <<ps[1]>>))
          [] ty = "KELTNER_MIDDLE" ->
                LET ema == IndicatorSpec("EMA", <<ps[1]>>)
                IN  IF ema \in DOMAIN c THEN Returned(c[ema], c)
                    ELSE Raised("KeyError", c)
          [] ty \in {"KELTNER_UPPER", "KELTNER_LOWER"} ->
                FromCached(c, IndicatorSpec("KELTNER_MIDDLE", <<ps[1]>>),
                              IndicatorSpec("ATR_WILDER", <<ps[2]>>))
          [] ty = "STOCHASTIC_K" -> Returned(ComputeStochasticK(ps[1]), c)
          [] ty = "STOCHASTIC_D" ->
                LET stoch_k == IndicatorSpec("STOCHASTIC_K", <<ps[1]>>)
                IN  IF stoch_k \in DOMAIN c THEN Returned(SmaGpu(c[stoch_k], ps[2]), c)
                    ELSE Raised("KeyError", c)
          [] ty = "DMI_PLUS" ->
                LET minus == IndicatorSpec("DMI_MINUS", <<ps[1]>>)
                    r == ComputeDmiAdx(ps[1], ps[1])
                IN  [raised |-> "none", ret |-> r.plus_di,
                     cache |-> Put(c, minus, r.minus_di),
                     written |-> <<minus>>, nested |-> <<>>]
          [] ty = "DMI_MINUS" ->
                IF spec \in DOMAIN c THEN Returned(c[spec], c)
                ELSE Returned(ComputeDmiAdx(ps[1], ps[1]).minus_di, c)
          [] ty = "ADX" -> Returned(ComputeDmiAdx(ps[1], ps[2]).adx, c)
          [] OTHER -> Raised("NotImplementedError", c)

RECURSIVE CountWrites(_, _)
\* the history of assignments to self._cache after those of the list specs
CountWrites(w, specs) ==
    IF specs = <<>> THEN w
    ELSE LET s == Head(specs)
             n == IF s \in DOMAIN w THEN w[s] + 1 ELSE 1
         IN  CountWrites([x \in DOMAIN w \cup {s} |-> IF x = s THEN n ELSE w[x]],
                         Tail(specs))

\* what the history records of one _compute call: the identifier, those of
\* its dependencies() that the dictionary c lacks when the call starts, and
\* whether the call was made from inside another _compute rather than by
\* the loop over the sorted list
LogEntry(spec, c, nested) ==
    [spec |-> spec, missing |-> DepSet(spec) \ DOMAIN c, nested |-> nested]

\* a test that finds no identifier in the dictionary
NeverCached(spec, c) == FALSE

\* ensure_computed, line 97: the test spec in self._cache
IsCached(spec, c) == spec \in DOMAIN c

RECURSIVE EnsureLoop(_, _, _)
\* ensure_computed, lines 96-98: the loop over ordered from index i on.
\* st is the dictionary, the write history, the log and the exception so
\* far; an exception ends the loop.
EnsureLoop(ordered, i, st) ==
    IF i > Len(ordered) \/ st.error # "none" THEN st
    ELSE IF IsCached(ordered[i], st.cache) THEN EnsureLoop(ordered, i + 1, st)
    ELSE CHOOSE next \in
            {EnsureLoop(ordered, i + 1,
                IF r.raised = "none"
                THEN [cache |-> Put(r.cache, ordered[i], r.ret),
                      writes |-> CountWrites(st.writes, Append(r.written, ordered[i])),
                      log |-> st.log \cup {LogEntry(ordered[i], st.cache, FALSE)}
                                \cup {LogEntry(r.nested[k], st.cache, TRUE)
                                         : k \in 1..Len(r.nested)},
                      error |-> "none"]
                ELSE [cache |-> r.cache,
                      writes |-> CountWrites(st.writes, r.written),
                      log |-> st.log \cup {LogEntry(ordered[i], st.cache, FALSE)}
                                \cup {LogEntry(r.nested[k], st.cache, TRUE)
                                         : k \in 1..Len(r.nested)},
                      error |-> r.raised])
                : r \in {Compute(ordered[i], st.cache)}} : TRUE

\* no get has been made since the last other call
NoGet == [op |-> "none", spec |-> IndicatorSpec("none", <<>>), raised |-> FALSE,
          value |-> <<>>]

\* ensure_computed(specs), lines 84-98
EnsureComputed(specs) ==
    /\ \E outcome \in TopologicalSort(ExpandDependencies(specs)) :
          IF outcome.raised
          THEN /\ last_error' = "ValueError"
               /\ compute_log' = {}
               /\ UNCHANGED <<cache, writes>>
          ELSE \E st \in {EnsureLoop(outcome.result, 1,
                               [cache |-> cache, writes |-> writes, log |-> {},
                                error |-> "none"])} :
                   /\ cache' = st.cache
                   /\ writes' = st.writes
                   /\ compute_log' = st.log
                   /\ last_error' = st.error
    /\ last_get' = NoGet
    /\ UNCHANGED workload

\* a get that computes the missing entry instead of raising
GetResultComputeOnMiss(spec) ==
    [op |-> "get", spec |-> spec, raised |-> FALSE,
     value |-> IF spec \in DOMAIN cache THEN cache[spec] ELSE Compute(spec, cache).ret]

\* get(spec), lines 114-120: KeyError, or the entry
GetResult(spec) ==
    [op |-> "get", spec |-> spec, raised |-> spec \notin DOMAIN cache,
     value |-> IF spec \in DOMAIN cache THEN cache[spec] ELSE <<>>]

\* get_or_none(spec), line 124: None, or the entry
GetOrNoneResult(spec) ==
    [op |-> "get_or_none", spec |-> spec, raised |-> FALSE,
     value |-> IF spec \in DOMAIN cache THEN cache[spec] ELSE <<>>]

Get(spec) ==
    /\ last_get' = GetResult(spec)
    /\ UNCHANGED <<workload, cache, writes, compute_log, last_error>>
    /\ UNCHANGED <<scanVars, graphVars, batchVars, sweepVars, metricsVars, kernelVars>>

GetOrNone(spec) ==
    /\ last_get' = GetOrNoneResult(spec)
    /\ UNCHANGED <<workload, cache, writes, compute_log, last_error>>
    /\ UNCHANGED <<scanVars, graphVars, batchVars, sweepVars, metricsVars, kernelVars>>

\* clear(), lines 446-448
Clear ==
    /\ DOMAIN cache # {}
    /\ cache' = EmptyCache
    /\ writes' = EmptyCache
    /\ last_get' = NoGet
    /\ UNCHANGED <<workload, compute_log, last_error>>
    /\ UNCHANGED <<scanVars, graphVars, batchVars, sweepVars, metricsVars, kernelVars>>

\* a cache just constructed, lines 81-82
CacheFresh ==
    /\ cache = EmptyCache
    /\ writes = EmptyCache
    /\ compute_log = {}
    /\ last_error = "none"
    /\ last_get = NoGet

(***************************************************************************)
(* indicator_graph.py collect_strategy_indicators and signal_batched.py    *)
(***************************************************************************)
SigPeriods == 1..MaxSigPeriod

\* multipliers of the grids, in tenths (2.0 and 2.5)
Multipliers == {20, 25}

\* int(cfg["multiplier"] * 100) for a multiplier given in tenths
MultInt(multiplier) == multiplier * 10

\* the families compute_signals_batched dispatches on, lines 51-91
BatchedFamilies ==
    {"donchian", "ma_crossover", "supertrend", "fifty_two_week", "parabolic_sar",
     "bollinger", "rsi", "macd", "aroon", "tsmom", "keltner", "starc",
     "stochastic", "dmi_adx"}

\* families of config.py STRATEGY_PARAMS_REGISTRY with no batched generator
OtherFamilies == {"larry_williams", "heikin_ashi"}

\* the keys of config.py STRATEGY_PARAMS_REGISTRY, lines 324-341: the families
\* from_yaml accepts (line 428)
StrategyParamsRegistry == BatchedFamilies \cup OtherFamilies

\* the config dicts generate_configs of config.py builds for one family over
\* the bounded periods (a fast period is shorter than the slow one, lines 74
\* and 292); keys that no indicator or mask depends on are left out
StrategyConfigs(family) ==
    CASE family = "donchian" ->
            {[entry_lookback |-> a, exit_lookback |-> b] : a \in SigPeriods, b \in SigPeriods}
      [] family = "ma_crossover" ->
            {cfg \in UNION {{[fast_period |-> a, slow_period |-> b, ma_type |-> m]
                                : a \in SigPeriods, b \in SigPeriods}
                             : m \in {"sma", "ema"}}
                : cfg.fast_period < cfg.slow_period}
      [] family = "supertrend" ->
            {[atr_period |-> a, multiplier |-> m] : a \in SigPeriods, m \in Multipliers}
      [] family \in {"fifty_two_week", "bollinger", "rsi", "aroon"} ->
            {[period |-> a] : a \in SigPeriods}
      [] family = "macd" ->
            {cfg \in UNION {{[fast_period |-> a, slow_period |-> b,
                               signal_period |-> s]
                                : a \in SigPeriods, b \in SigPeriods}
                             : s \in SigPeriods}
                : cfg.fast_period < cfg.slow_period}
      [] family = "tsmom" -> {[lookback |-> a] : a \in SigPeriods}
      [] family = "keltner" ->
            {[ema_period |-> a, atr_period |-> b] : a \in SigPeriods, b \in SigPeriods}
      [] family = "starc" ->
            {[sma_period |-> a, atr_period |-> b] : a \in SigPeriods, b \in SigPeriods}
      [] family = "stochastic" ->
            {[k_period |-> a, d_period |-> b] : a \in SigPeriods, b \in SigPeriods}
      [] family = "dmi_adx" ->
            {[di_period |-> a, adx_period |-> b] : a \in SigPeriods, b \in SigPeriods}
      [] family = "parabolic_sar" -> {[af_start |-> 2]}
      [] family = "larry_williams" -> {[atr_period |-> a] : a \in SigPeriods}
      [] family = "heikin_ashi" -> {[confirmation_bars |-> a] : a \in SigPeriods}

\* non-empty config lists of one family: one config, or two
Batches(family) ==
    {<<a>> : a \in StrategyConfigs(family)}
        \cup {<<a, b>> : a \in StrategyConfigs(family), b \in StrategyConfigs(family)}

\* collect_strategy_indicators, the body of the loop over configs for one cfg
CollectConfig(strategy_type, cfg) ==
    CASE strategy_type = "donchian" ->
            {IndicatorSpec("DONCHIAN_UPPER", <<cfg.entry_lookback>>),
             IndicatorSpec("DONCHIAN_LOWER", <<cfg.exit_lookback>>)}
      [] strategy_type = "ma_crossover" ->
            IF cfg.ma_type = "ema"
            THEN {IndicatorSpec("EMA", <<cfg.fast_period>>),
                  IndicatorSpec("EMA", <<cfg.slow_period>>)}
            ELSE {IndicatorSpec("SMA", <<cfg.fast_period>>),
                  IndicatorSpec("SMA", <<cfg.slow_period>>)}
      [] strategy_type = "supertrend" ->
            {IndicatorSpec("SUPERTREND", <<cfg.atr_period, MultInt(cfg.multiplier)>>)}
      [] strategy_type = "fifty_two_week" ->
            {IndicatorSpec("ROLLING_MAX_HIGH", <<cfg.period>>)}
      [] strategy_type = "bollinger" ->
            {IndicatorSpec("BOLLINGER_MIDDLE", <<cfg.period>>),
             IndicatorSpec("ROLLING_STD", <<cfg.period>>)}
      [] strategy_type = "rsi" -> {IndicatorSpec("RSI", <<cfg.period>>)}
      [] strategy_type = "macd" ->
            {IndicatorSpec("MACD_LINE", <<cfg.fast_period, cfg.slow_period>>),
             IndicatorSpec("MACD_SIGNAL",
                           <<cfg.fast_period, cfg.slow_period, cfg.signal_period>>)}
      [] strategy_type = "aroon" ->
            {IndicatorSpec("AROON_UP", <<cfg.period>>),
             IndicatorSpec("AROON_DOWN", <<cfg.period>>)}
      [] strategy_type = "keltner" ->
            {IndicatorSpec("KELTNER_MIDDLE", <<cfg.ema_period>>),
             IndicatorSpec("ATR_WILDER", <<cfg.atr_period>>)}
      [] strategy_type = "starc" ->
            {IndicatorSpec("SMA", <<cfg.sma_period>>),
             IndicatorSpec("ATR_WILDER", <<cfg.atr_period>>)}
      [] strategy_type = "stochastic" ->
            {IndicatorSpec("STOCHASTIC_K", <<cfg.k_period>>),
             IndicatorSpec("STOCHASTIC_D", <<cfg.k_period, cfg.d_period>>)}
      [] strategy_type = "dmi_adx" ->
            {IndicatorSpec("DMI_PLUS", <<cfg.di_period>>),
             IndicatorSpec("DMI_MINUS", <<cfg.di_period>>),
             IndicatorSpec("ADX", <<cfg.di_period, cfg.adx_period>>)}
      [] OTHER -> {}

\* a collection that looks at the first config only
CollectFirstConfigOnly(strategy_type, cfgs) ==
    IF strategy_type = "parabolic_sar"
    THEN {IndicatorSpec("ATR_WILDER", <<SarAtrPeriod>>)}
    ELSE CollectConfig(strategy_type, cfgs[1])

\* collect_strategy_indicators(strategy_type, configs), lines 267-379
CollectStrategyIndicators(strategy_type, cfgs) ==
    IF strategy_type = "parabolic_sar"
    THEN {IndicatorSpec("ATR_WILDER", <<SarAtrPeriod>>)}
    ELSE UNION {CollectConfig(strategy_type, cfgs[i]) : i \in 1..Len(cfgs)}

\* the identifiers one pass of a generator's loop looks up with cache.get
ConfigLookups(strategy_type, cfg) ==
    CASE strategy_type = "supertrend" ->
            {IndicatorSpec("SUPERTREND_DIRECTION",
                           <<cfg.atr_period, MultInt(cfg.multiplier)>>)}
      [] strategy_type = "parabolic_sar" ->
            {IndicatorSpec("ATR_WILDER", <<SarAtrPeriod>>)}
      [] strategy_type = "donchian" ->
            {IndicatorSpec("DONCHIAN_UPPER", <<cfg.entry_lookback>>),
             IndicatorSpec("DONCHIAN_LOWER", <<cfg.exit_lookback>>)}
      [] strategy_type = "ma_crossover" ->
            {IndicatorSpec(IF cfg.ma_type = "ema" THEN "EMA" ELSE "SMA", <<p>>)
                : p \in {cfg.fast_period, cfg.slow_period}}
      [] strategy_type = "fifty_two_week" ->
            {IndicatorSpec("ROLLING_MAX_HIGH", <<cfg.period>>)}
      [] strategy_type = "bollinger" ->
            {IndicatorSpec("BOLLINGER_MIDDLE", <<cfg.period>>),
             IndicatorSpec("ROLLING_STD", <<cfg.period>>)}
      [] strategy_type = "rsi" -> {IndicatorSpec("RSI", <<cfg.period>>)}
      [] strategy_type = "macd" ->
            {IndicatorSpec("MACD_LINE", <<cfg.fast_period, cfg.slow_period>>),
             IndicatorSpec("MACD_SIGNAL",
                           <<cfg.fast_period, cfg.slow_period, cfg.signal_period>>)}
      [] strategy_type = "aroon" ->
            {IndicatorSpec("AROON_UP", <<cfg.period>>),
             IndicatorSpec("AROON_DOWN", <<cfg.period>>)}
      [] strategy_type = "keltner" ->
            {IndicatorSpec("KELTNER_MIDDLE", <<cfg.ema_period>>),
             IndicatorSpec("ATR_WILDER", <<cfg.atr_period>>)}
      [] strategy_type = "starc" ->
            {IndicatorSpec("SMA", <<cfg.sma_period>>),
             IndicatorSpec("ATR_WILDER", <<cfg.atr_period>>)}
      [] strategy_type = "stochastic" ->
            {IndicatorSpec("STOCHASTIC_K", <<cfg.k_period>>),
             IndicatorSpec("STOCHASTIC_D", <<cfg.k_period, cfg.d_period>>)}
      [] strategy_type = "dmi_adx" ->
            {IndicatorSpec("DMI_PLUS", <<cfg.di_period>>),
             IndicatorSpec("DMI_MINUS", <<cfg.di_period>>),
             IndicatorSpec("ADX", <<cfg.di_period, cfg.adx_period>>)}
      [] OTHER -> {}

\* every identifier the generator of the family looks up for the configs
SignalLookups(strategy_type, cfgs) ==
    UNION {ConfigLookups(strategy_type, cfgs[i]) : i \in 1..Len(cfgs)}

Combine3(a, b, c) == Combine(a, Combine(b, c))

\* a comparison of two arrays and of their values one bar earlier
Crossing(a, b) == Combine(Combine(a, b), Combine(Roll(a, 1), Roll(b, 1)))

\* _signals_donchian_batched, lines 132-145
SignalsDonchian(cfg, c) ==
    LET entry_high == c[IndicatorSpec("DONCHIAN_UPPER", <<cfg.entry_lookback>>)]
        exit_low == c[IndicatorSpec("DONCHIAN_LOWER", <<cfg.exit_lookback>>)]
    IN  [entry |-> Masked(Combine(Price, Roll(entry_high, 1)), cfg.entry_lookback),
         exit |-> Masked(Combine(Price, Roll(exit_low, 1)), cfg.exit_lookback)]

\* _signals_ma_crossover_batched, lines 183-202
SignalsMaCrossover(cfg, c) ==
    LET kind == IF cfg.ma_type = "ema" THEN "EMA" ELSE "SMA"
        fast_ma == c[IndicatorSpec(kind, <<cfg.fast_period>>)]
        slow_ma == c[IndicatorSpec(kind, <<cfg.slow_period>>)]
    IN  [entry |-> Masked(Crossing(fast_ma, slow_ma), cfg.slow_period),
         exit |-> Masked(Crossing(fast_ma, slow_ma), cfg.slow_period)]

\* _signals_supertrend_batched, lines 219-233
SignalsSupertrend(cfg, c) ==
    LET direction == c[IndicatorSpec("SUPERTREND_DIRECTION",
                                     <<cfg.atr_period, MultInt(cfg.multiplier)>>)]
        warmup == cfg.atr_period + 1
    IN  [entry |-> Masked(Combine(direction, Roll(direction, 1)), warmup),
         exit |-> Masked(Combine(direction, Roll(direction, 1)), warmup)]

\* _signals_fifty_two_week_batched, lines 260-272
SignalsFiftyTwoWeek(cfg, c) ==
    LET rolling_high == c[IndicatorSpec("ROLLING_MAX_HIGH", <<cfg.period>>)]
        proximity == Combine(Price, rolling_high)
    IN  [entry |-> Masked(proximity, cfg.period),
         exit |-> Masked(proximity, cfg.period)]

\* _signals_parabolic_sar_batched, lines 292-306
SignalsParabolicSar(cfg, c) ==
    LET atr == c[IndicatorSpec("ATR_WILDER", <<SarAtrPeriod>>)]
        lower_band == Combine(Price, atr)
        prev_lower == Roll(lower_band, 1)
    IN  [entry |-> Masked(Combine(Price, prev_lower), SarWarmup),
         exit |-> Masked(Combine(Price, prev_lower), SarWarmup)]

\* _signals_bollinger_batched, lines 333-346
SignalsBollinger(cfg, c) ==
    LET middle == c[IndicatorSpec("BOLLINGER_MIDDLE", <<cfg.period>>)]
        std == c[IndicatorSpec("ROLLING_STD", <<cfg.period>>)]
        lower == Combine(middle, std)
    IN  [entry |-> Masked(Combine(Price, lower), cfg.period),
         exit |-> Masked(Combine(Price, middle), cfg.period)]

\* _signals_rsi_batched, lines 371-385
SignalsRsi(cfg, c) ==
    LET rsi == c[IndicatorSpec("RSI", <<cfg.period>>)]
        prev_rsi == Roll(rsi, 1)
        warmup == cfg.period + 1
    IN  [entry |-> Masked(Combine(rsi, prev_rsi), warmup),
         exit |-> Masked(Combine(rsi, prev_rsi), warmup)]

\* _signals_macd_batched, lines 402-423
SignalsMacd(cfg, c) ==
    LET macd_line == c[IndicatorSpec("MACD_LINE", <<cfg.fast_period, cfg.slow_period>>)]
        signal_line == c[IndicatorSpec("MACD_SIGNAL",
                            <<cfg.fast_period, cfg.slow_period, cfg.signal_period>>)]
        warmup == cfg.slow_period + cfg.signal_period
    IN  [entry |-> Masked(Crossing(macd_line, signal_line), warmup),
         exit |-> Masked(Crossing(macd_line, signal_line), warmup)]

\* _signals_aroon_batched, lines 443-462
SignalsAroon(cfg, c) ==
    LET aroon_up == c[IndicatorSpec("AROON_UP", <<cfg.period>>)]
        aroon_down == c[IndicatorSpec("AROON_DOWN", <<cfg.period>>)]
        warmup == cfg.period + 1
    IN  [entry |-> Masked(Crossing(aroon_up, aroon_down), warmup),
         exit |-> Masked(Crossing(aroon_down, aroon_up), warmup)]

\* _signals_tsmom_batched, lines 478-492
SignalsTsmom(cfg) ==
    LET lagged_close == Roll(Price, cfg.lookback)
        momentum == Combine(Combine(Price, lagged_close), lagged_close)
        prev_momentum == Roll(momentum, 1)
        warmup == cfg.lookback + 1
    IN  [entry |-> Masked(Combine(momentum, prev_momentum), warmup),
         exit |-> Masked(Combine(momentum, prev_momentum), warmup)]

Max(a, b) == IF a >= b THEN a ELSE b

\* _signals_keltner_batched, lines 509-525
SignalsKeltner(cfg, c) ==
    LET middle == c[IndicatorSpec("KELTNER_MIDDLE", <<cfg.ema_period>>)]
        atr == c[IndicatorSpec("ATR_WILDER", <<cfg.atr_period>>)]
        lower == Combine(middle, atr)
        warmup == Max(cfg.ema_period, cfg.atr_period)
    IN  [entry |-> Masked(Combine(Price, lower), warmup),
         exit |-> Masked(Combine(Price, middle), warmup)]

\* _signals_starc_batched, lines 542-558
SignalsStarc(cfg, c) ==
    LET middle == c[IndicatorSpec("SMA", <<cfg.sma_period>>)]
        atr == c[IndicatorSpec("ATR_WILDER", <<cfg.atr_period>>)]
        lower == Combine(middle, atr)
        warmup == Max(cfg.sma_period, cfg.atr_period)
    IN  [entry |-> Masked(Combine(Price, lower), warmup),
         exit |-> Masked(Combine(Price, middle), warmup)]

\* _signals_stochastic_batched, lines 578-604
SignalsStochastic(cfg, c) ==
    LET stoch_k == c[IndicatorSpec("STOCHASTIC_K", <<cfg.k_period>>)]
        stoch_d == c[IndicatorSpec("STOCHASTIC_D", <<cfg.k_period, cfg.d_period>>)]
        warmup == cfg.k_period + cfg.d_period
    IN  [entry |-> Masked(Combine(Crossing(stoch_k, stoch_d), stoch_k), warmup),
         exit |-> Masked(Combine(Crossing(stoch_k, stoch_d), stoch_k), warmup)]

\* _signals_dmi_adx_batched, lines 624-648
SignalsDmiAdx(cfg, c) ==
    LET plus_di == c[IndicatorSpec("DMI_PLUS", <<cfg.di_period>>)]
        minus_di == c[IndicatorSpec("DMI_MINUS", <<cfg.di_period>>)]
        adx == c[IndicatorSpec("ADX", <<cfg.di_period, cfg.adx_period>>)]
        warmup == cfg.di_period + cfg.adx_period
    IN  [entry |-> Masked(Combine(Crossing(plus_di, minus_di), adx), warmup),
         exit |-> Masked(Crossing(minus_di, plus_di), warmup)]

\* compute_signals_batched, lines 51-97: the row of one config
ConfigSignals(strategy_type, cfg, c) ==
    CASE strategy_type = "donchian" -> SignalsDonchian(cfg, c)
      [] strategy_type = "ma_crossover" -> SignalsMaCrossover(cfg, c)
      [] strategy_type = "supertrend" -> SignalsSupertrend(cfg, c)
      [] strategy_type = "fifty_two_week" -> SignalsFiftyTwoWeek(cfg, c)
      [] strategy_type = "parabolic_sar" -> SignalsParabolicSar(cfg, c)
      [] strategy_type = "bollinger" -> SignalsBollinger(cfg, c)
      [] strategy_type = "rsi" -> SignalsRsi(cfg, c)
      [] strategy_type = "macd" -> SignalsMacd(cfg, c)
      [] strategy_type = "aroon" -> SignalsAroon(cfg, c)
      [] strategy_type = "tsmom" -> SignalsTsmom(cfg)
      [] strategy_type = "keltner" -> SignalsKeltner(cfg, c)
      [] strategy_type = "starc" -> SignalsStarc(cfg, c)
      [] strategy_type = "stochastic" -> SignalsStochastic(cfg, c)
      [] strategy_type = "dmi_adx" -> SignalsDmiAdx(cfg, c)
      [] OTHER -> [entry |-> Zeros, exit |-> Zeros]

\* engine.py _run_strategy_batch, lines 183-193: a cache is built and the
\* indicators of the batch are collected and computed
EnsureBatchIndicators ==
    /\ batch_pc = "ready"
    /\ EnsureComputed(CollectStrategyIndicators(strategy_name, configs))
    /\ batch_pc' = "ensured"
    /\ UNCHANGED <<scanVars, graphVars, strategy_name, configs, entry_out, exit_out>>
    /\ UNCHANGED <<sweepVars, metricsVars, kernelVars>>

\* the state compute_signals_batched leaves when its ensure_computed call
\* (lines 47-48) left the cache in st: the generator of the family looks up
\* its identifiers and fills entry and exit, or the first miss raises
DispatchSignals(st) ==
    IF st.error # "none"
    THEN [pc |-> "failed", error |-> st.error, entry |-> <<>>, exit |-> <<>>]
    ELSE IF SignalLookups(strategy_name, configs) \subseteq DOMAIN st.cache
    THEN [pc |-> "done", error |-> "none",
          entry |-> [i \in 1..Len(configs) |->
                        ConfigSignals(strategy_name, configs[i], st.cache).entry],
          exit |-> [i \in 1..Len(configs) |->
                        ConfigSignals(strategy_name, configs[i], st.cache).exit]]
    ELSE [pc |-> "failed", error |-> "KeyError", entry |-> <<>>, exit |-> <<>>]

\* compute_signals_batched, lines 19-97, called on a fresh cache or after
\* _run_strategy_batch has run ensure_computed
ComputeSignalsBatched ==
    /\ batch_pc \in {"ready", "ensured"}
    /\ last_error = "none"
    /\ \E outcome \in TopologicalSort(ExpandDependencies(
                          CollectStrategyIndicators(strategy_name, configs))) :
          \E st \in {IF outcome.raised
                      THEN [cache |-> cache, writes |-> writes, log |-> {},
                            error |-> "ValueError"]
                      ELSE EnsureLoop(outcome.result, 1,
                              [cache |-> cache, writes |-> writes, log |-> {},
                               error |-> "none"])} :
              \E out \in {DispatchSignals(st)} :
                  /\ cache' = st.cache
                  /\ writes' = st.writes
                  /\ compute_log' = st.log
                  /\ last_error' = out.error
                  /\ batch_pc' = out.pc
                  /\ entry_out' = out.entry
                  /\ exit_out' = out.exit
    /\ last_get' = NoGet
    /\ UNCHANGED <<scanVars, graphVars, strategy_name, configs, workload>>
    /\ UNCHANGED <<sweepVars, metricsVars, kernelVars>>

\* no batch is being run
BatchIdle ==
    /\ strategy_name = "none"
    /\ configs = <<>>
    /\ batch_pc = "off"
    /\ entry_out = <<>>
    /\ exit_out = <<>>

(***************************************************************************)
(* engine.py: run_sweep and _run_strategy_batch                            *)
(*                                                                         *)
(* A result row carries the entry and exit signals of its config: the      *)
(* position scan and the metrics (lines 207-246) are computed from them    *)
(* row by row, with the prices of the symbol.  Of the scan the row keeps   *)
(* the equity at bar 0, of the metrics the cash they take as their base.   *)
(***************************************************************************)
\* what load_symbol_to_arrays does for one symbol: it raises, or returns
\* series of some length
SymbolData ==
    {[load |-> "raises", bars |-> 0]}
        \cup {[load |-> "ok", bars |-> n] : n \in {MaxBars, MinSweepBars}}

\* estimate_batch_size, lines 35-50: a size that the free memory of the
\* device decides.  The grids of the model hold a few configs, so the sizes
\* taken are small ones too: below, at and above the size of a grid.
EstimateBatchSize == {1, 2}

RECURSIVE ListOf(_)
\* the elements of a set as a list, in an order fixed by the set
ListOf(S) ==
    IF S = {} THEN <<>>
    ELSE LET x == CHOOSE y \in S : TRUE
         IN  <<x>> \o ListOf(S \ {x})

\* grid.generate_configs(), line 119
GenerateConfigs(family) == ListOf(StrategyConfigs(family))

\* configs[batch_start:batch_end], lines 127-128
BatchConfigs(grid, start, size) ==
    SubSeq(grid, start + 1, IF start + size < Len(grid) THEN start + size ELSE Len(grid))

\* lines 145-149 with the batch index alone as config_id
ConfigIdInBatch(start, i) == i

\* lines 145-149: result["config_id"] = batch_start + i
ConfigId(start, i) == start + i

\* lines 231-246 and 145-149: the rows of one batch, from the signals of
\* its configs
BatchResults(out) ==
    [i \in 1..Len(configs) |->
        [symbol |-> symbol_idx,
         strategy_type |-> strategy_name,
         config_id |-> ConfigId(batch_start, i - 1),
         params |-> configs[i],
         entry |-> out.entry[i],
         exit |-> out.exit[i],
         equity_0 |-> InitialCash,
         metrics_base |-> initial_cash]]

\* where the loops of lines 90, 118 and 126 stand after the batch at
\* batch_start of strategy strategy_idx
AfterBatch ==
    IF batch_start + batch_size < Len(GenerateConfigs(strategies[strategy_idx]))
    THEN [pc |-> "batch", symbol_idx |-> symbol_idx, strategy_idx |-> strategy_idx,
          batch_start |-> batch_start + batch_size]
    ELSE IF strategy_idx < Len(strategies)
    THEN [pc |-> "batch", symbol_idx |-> symbol_idx, strategy_idx |-> strategy_idx + 1,
          batch_start |-> 0]
    ELSE [pc |-> "symbol", symbol_idx |-> symbol_idx + 1, strategy_idx |-> 0,
          batch_start |-> 0]

\* the arguments of the _run_strategy_batch call at position at
NextBatch(at) ==
    IF at.pc = "batch"
    THEN [strategy_name |-> strategies[at.strategy_idx],
          configs |-> BatchConfigs(GenerateConfigs(strategies[at.strategy_idx]),
                                   at.batch_start, batch_size)]
    ELSE [strategy_name |-> "none", configs |-> <<>>]

sweepInputVars == <<symbols, strategies, initial_cash, batch_size>>

\* lines 94-104: loading the symbol raises, and the symbol is skipped
SkipSymbolLoadError ==
    /\ sweep_pc = "symbol"
    /\ symbol_idx <= Len(symbols)
    /\ symbols[symbol_idx].load = "raises"
    /\ symbol_idx' = symbol_idx + 1
    /\ UNCHANGED <<sweepInputVars, strategy_idx, batch_start, all_results, sweep_pc,
                   sweep_error, sweep_log>>
    /\ UNCHANGED <<scanVars, graphVars, cacheVars, batchVars, metricsVars, kernelVars>>

\* lines 111-115: fewer than 50 bars, and the symbol is skipped
SkipSymbolTooFewBars ==
    /\ sweep_pc = "symbol"
    /\ symbol_idx <= Len(symbols)
    /\ symbols[symbol_idx].load = "ok"
    /\ symbols[symbol_idx].bars < MinSweepBars
    /\ symbol_idx' = symbol_idx + 1
    /\ UNCHANGED <<sweepInputVars, strategy_idx, batch_start, all_results, sweep_pc,
                   sweep_error, sweep_log>>
    /\ UNCHANGED <<scanVars, graphVars, cacheVars, batchVars, metricsVars, kernelVars>>

\* lines 94-128: the symbol is loaded and the first batch of the first
\* strategy is cut
LoadSymbol ==
    /\ sweep_pc = "symbol"
    /\ symbol_idx <= Len(symbols)
    /\ symbols[symbol_idx].load = "ok"
    /\ symbols[symbol_idx].bars >= MinSweepBars
    /\ num_bars' = symbols[symbol_idx].bars
    /\ sweep_pc' = "batch"
    /\ strategy_idx' = 1
    /\ batch_start' = 0
    /\ \E b \in {NextBatch([pc |-> "batch", strategy_idx |-> 1, batch_start |-> 0])} :
          /\ strategy_name' = b.strategy_name
          /\ configs' = b.configs
    /\ UNCHANGED <<sweepInputVars, symbol_idx, all_results, sweep_error, sweep_log>>
    /\ UNCHANGED <<entry_signals, exit_signals, open_prices, close_prices, fees_bps,
                   qty_per_trade, position, cash, position_qty, equity, entry_bars,
                   exit_bars, t, scan_pc, position_only>>
    /\ UNCHANGED <<graphVars, cacheVars, batch_pc, entry_out, exit_out, metricsVars, kernelVars>>

\* lines 131-151 and _run_strategy_batch, lines 180-248: one batch on a
\* cache built for it; what it raises leaves run_sweep
RunStrategyBatch ==
    /\ sweep_pc = "batch"
    /\ \E outcome \in TopologicalSort(ExpandDependencies(
                          CollectStrategyIndicators(strategy_name, configs))) :
          \E st \in {IF outcome.raised
                      THEN [cache |-> EmptyCache, writes |-> EmptyCache, log |-> {},
                            error |-> "ValueError"]
                      ELSE EnsureLoop(outcome.result, 1,
                              [cache |-> EmptyCache, writes |-> EmptyCache,
                               log |-> {}, error |-> "none"])} :
              \E out \in {DispatchSignals(st)} :
                  /\ cache' = st.cache
                  /\ writes' = st.writes
                  /\ compute_log' = st.log
                  /\ last_error' = out.error
                  /\ batch_pc' = out.pc
                  /\ entry_out' = out.entry
                  /\ exit_out' = out.exit
                  /\ sweep_log' = Append(sweep_log,
                         [symbol |-> symbol_idx, strategy_type |-> strategy_name,
                          batch_start |-> batch_start,
                          computed |-> DOMAIN st.cache])
                  /\ IF out.pc = "done"
                     THEN \E at \in {AfterBatch} : \E b \in {NextBatch(at)} :
                            /\ all_results' = all_results \o BatchResults(out)
                            /\ sweep_pc' = at.pc
                            /\ symbol_idx' = at.symbol_idx
                            /\ strategy_idx' = at.strategy_idx
                            /\ batch_start' = at.batch_start
                            /\ strategy_name' = b.strategy_name
                            /\ configs' = b.configs
                            /\ sweep_error' = "none"
                     ELSE /\ sweep_pc' = "raised"
                          /\ sweep_error' = "indicators"
                          /\ UNCHANGED <<symbol_idx, strategy_idx, batch_start,
                                         all_results, strategy_name, configs>>
    /\ last_get' = NoGet
    /\ UNCHANGED <<sweepInputVars, workload>>
    /\ UNCHANGED <<scanVars, graphVars, metricsVars, kernelVars>>

\* the stages of _run_strategy_batch, lines 183-229
BatchStages == {"indicators", "signals", "scan", "metrics"}

\* a stage of the batch raises (the device runs out of memory, say); no
\* handler encloses the call of line 131, so the exception leaves run_sweep
BatchRaises(stage) ==
    /\ sweep_pc = "batch"
    /\ sweep_pc' = "raised"
    /\ sweep_error' = stage
    /\ UNCHANGED <<sweepInputVars, symbol_idx, strategy_idx, batch_start, all_results,
                   sweep_log>>
    /\ UNCHANGED <<scanVars, graphVars, cacheVars, batchVars, metricsVars, kernelVars>>

\* lines 153-158: the loop over the symbols is over, the table is returned
ReturnResults ==
    /\ sweep_pc = "symbol"
    /\ symbol_idx > Len(symbols)
    /\ sweep_pc' = "done"
    /\ UNCHANGED <<sweepInputVars, symbol_idx, strategy_idx, batch_start, all_results,
                   sweep_error, sweep_log>>
    /\ UNCHANGED <<scanVars, graphVars, cacheVars, batchVars, metricsVars, kernelVars>>

\* run_sweep is not running
SweepIdle ==
    /\ symbols = <<>>
    /\ strategies = <<>>
    /\ initial_cash = InitialCash
    /\ batch_size = 0
    /\ symbol_idx = 0
    /\ strategy_idx = 0
    /\ batch_start = 0
    /\ all_results = <<>>
    /\ sweep_pc = "off"
    /\ sweep_error = "none"
    /\ sweep_log = <<>>

(***************************************************************************)
(* metrics.py: the metrics of one equity curve                             *)
(*                                                                         *)
(* Equity is a sequence of whole amounts and a return is an exact          *)
(* fraction.  A metric is kept as what the claims tell apart: "zero",      *)
(* "positive", "negative", "nan" or "inf".  The guard value 1e-10 is       *)
(* 1 / EpsilonInverse, small against every amount of the model.            *)
(***************************************************************************)
Sign(x) == IF x > 0 THEN "positive" ELSE IF x < 0 THEN "negative" ELSE "zero"

\* compute_returns_gpu, lines 22-27: r[k] = (equity[k+1] - equity[k]) / prev,
\* prev being 1e-10 where equity[k] is 0; a fraction with den > 0.  The
\* returns of whole amounts are finite, so nan_to_num leaves them.
ComputeReturnsGpu(eq) ==
    [k \in 1..(Len(eq) - 1) |->
        IF eq[k] = 0
        THEN [num |-> (eq[k + 1] - eq[k]) * EpsilonInverse, den |-> 1]
        ELSE IF eq[k] > 0
        THEN [num |-> eq[k + 1] - eq[k], den |-> eq[k]]
        ELSE [num |-> eq[k] - eq[k + 1], den |-> 0 - eq[k]]]

RECURSIVE SumReturns(_, _)
\* cp.sum(returns, axis=1) over the first k returns, as a fraction
SumReturns(returns, k) ==
    IF k = 0 THEN [num |-> 0, den |-> 1]
    ELSE LET rest == SumReturns(returns, k - 1)
         IN  [num |-> rest.num * returns[k].den + returns[k].num * rest.den,
              den |-> rest.den * returns[k].den]

\* the sign of mean_ret, lines 52 and 84
MeanReturnSign(eq) ==
    Sign(SumReturns(ComputeReturnsGpu(eq), Len(eq) - 1).num)

\* std_ret == 0, lines 55-56 and 62: the population variance is 0 exactly
\* when all returns are equal
StdIsZero(eq) ==
    LET returns == ComputeReturnsGpu(eq)
    IN  \A j \in DOMAIN returns, k \in DOMAIN returns :
            returns[j].num * returns[k].den = returns[k].num * returns[j].den

\* downside_dev == 0, lines 87-89 and 94: no return is below zero
DownsideIsZero(eq) ==
    \A k \in 1..(Len(eq) - 1) : ComputeReturnsGpu(eq)[k].num >= 0

\* sharpe_gpu, lines 30-62
SharpeGpu(eq) ==
    IF Len(eq) < 2 THEN "zero"
    ELSE IF StdIsZero(eq) THEN "zero"
    ELSE MeanReturnSign(eq)

\* sortino_gpu, lines 65-97
SortinoGpu(eq) ==
    IF Len(eq) < 2 THEN "zero"
    ELSE IF DownsideIsZero(eq) THEN "zero"
    ELSE MeanReturnSign(eq)

\* cagr_gpu, lines 100-124: (final_equity / initial_cash) ** (1 / years) - 1;
\* a negative base has no real root, and only the exponent 1 keeps it
CagrGpu(eq, cash0, yrs) ==
    IF cash0 <= 0 \/ yrs <= 0 THEN "zero"
    ELSE IF eq[Len(eq)] < 0 THEN (IF yrs = 1 THEN "negative" ELSE "nan")
    ELSE Sign(eq[Len(eq)] - cash0)

\* total_return_gpu, lines 127-142
TotalReturnGpu(eq, cash0) ==
    IF cash0 <= 0 THEN "zero" ELSE Sign(eq[Len(eq)] - cash0)

\* one pass of the loop of _running_max_gpu and no further doubling
RunningMaxSinglePass(result, offset) ==
    [b \in 1..Len(result) |->
        IF b > offset THEN Max(result[b], result[b - offset]) ELSE result[b]]

RECURSIVE RunningMaxLoop(_, _)
\* _running_max_gpu, lines 166-172: the loop from the given offset on.  The
\* copy shifted right by offset is -inf in its first offset bars, where the
\* maximum keeps result.
RunningMaxLoop(result, offset) ==
    IF offset < Len(result)
    THEN RunningMaxLoop(
            [b \in 1..Len(result) |->
                IF b > offset THEN Max(result[b], result[b - offset]) ELSE result[b]],
            2 * offset)
    ELSE result

\* _running_max_gpu, lines 145-174, on one row
RunningMaxGpu(arr) == IF Len(arr) = 0 THEN arr ELSE RunningMaxLoop(arr, 1)

\* max_drawdown_gpu, lines 177-203: the largest (peak - equity) / safe_peak.
\* The first bar gives 0; a later bar gives more where equity is below a
\* peak that is not negative (a peak of 0 is replaced by 1e-10).
MaxDrawdownGpu(eq) ==
    IF \E running_peak \in {RunningMaxGpu(eq)} :
          \E k \in 1..Len(eq) : running_peak[k] > eq[k] /\ running_peak[k] >= 0
    THEN "positive" ELSE "zero"

\* a Calmar ratio that divides by the max drawdown whatever it is
CalmarUnguarded(eq, cash0, yrs) ==
    IF MaxDrawdownGpu(eq) = "positive" THEN CagrGpu(eq, cash0, yrs)
    ELSE IF CagrGpu(eq, cash0, yrs) = "zero" THEN "nan"
    ELSE "inf"

\* calmar_gpu, lines 206-230: CAGR / max drawdown where that is positive
CalmarGpu(eq, cash0, yrs) ==
    IF MaxDrawdownGpu(eq) = "positive" THEN CagrGpu(eq, cash0, yrs) ELSE "zero"

\* compute_all_metrics_gpu, lines 461-466 and 479-486: the metrics taken
\* from the equity curve
ComputeAllMetricsGpu ==
    /\ metrics = <<>>
    /\ metrics' =
          [total_return |-> TotalReturnGpu(metrics_args.equity, metrics_args.initial_cash),
           cagr |-> CagrGpu(metrics_args.equity, metrics_args.initial_cash,
                            metrics_args.years),
           sharpe |-> SharpeGpu(metrics_args.equity),
           sortino |-> SortinoGpu(metrics_args.equity),
           max_drawdown |-> MaxDrawdownGpu(metrics_args.equity),
           calmar |-> CalmarGpu(metrics_args.equity, metrics_args.initial_cash,
                                metrics_args.years)]
    /\ UNCHANGED <<metrics_args, trade_stats, running_max>>
    /\ UNCHANGED <<scanVars, graphVars, cacheVars, batchVars, sweepVars, kernelVars>>

\* _running_max_gpu(arr) on one row
CallRunningMaxGpu ==
    /\ ~running_max.called
    /\ running_max' = [running_max EXCEPT !.called = TRUE,
                                          !.result = RunningMaxGpu(running_max.arr)]
    /\ UNCHANGED <<metrics_args, metrics, trade_stats>>
    /\ UNCHANGED <<scanVars, graphVars, cacheVars, batchVars, sweepVars, kernelVars>>

\* compute_all_metrics_gpu is not called
MetricsIdle ==
    /\ metrics_args = <<>>
    /\ metrics = <<>>
    /\ trade_stats = <<>>
    /\ running_max = [called |-> FALSE, arr |-> <<>>, result |-> <<>>]

(***************************************************************************)
(* kernels/*.py and indicators.py: the values of the recurrences           *)
(*                                                                         *)
(* A series is a function over 0..n-1.  A value is an exact fraction in    *)
(* lowest terms with a positive denominator, so equal records are equal    *)
(* values; the unknown value (NaN) is the record with denominator 0.       *)
(* Rounding to float32 is not modelled.                                    *)
(***************************************************************************)
RECURSIVE Gcd(_, _)
Gcd(a, b) == IF b = 0 THEN a ELSE Gcd(b, a % b)

Abs(x) == IF x < 0 THEN 0 - x ELSE x

\* the fraction n / dn (dn > 0) in lowest terms
Frac(n, dn) ==
    CHOOSE f \in {[num |-> n \div g, den |-> dn \div g] : g \in {Gcd(Abs(n), dn)}} : TRUE

Whole(n) == [num |-> n, den |-> 1]

\* nanf("") / cp.nan
NanValue == [num |-> 0, den |-> 0]

IsNan(a) == a.den = 0

\* a + b, a - b and a * n / dn; NaN propagates
FAdd(a, b) ==
    IF IsNan(a) \/ IsNan(b) THEN NanValue
    ELSE Frac(a.num * b.den + b.num * a.den, a.den * b.den)

FSub(a, b) ==
    IF IsNan(a) \/ IsNan(b) THEN NanValue
    ELSE Frac(a.num * b.den - b.num * a.den, a.den * b.den)

FScale(a, n, dn) == IF IsNan(a) THEN NanValue ELSE Frac(a.num * n, a.den * dn)

\* a < b; a comparison with NaN is false
FLess(a, b) == ~IsNan(a) /\ ~IsNan(b) /\ a.num * b.den < b.num * a.den

FMax(a, b) == IF FLess(a, b) THEN b ELSE a

FAbs(a) == [a EXCEPT !.num = Abs(a.num)]

\* the series of n unknown values: result.fill(cp.nan) / cp.full_like(x, cp.nan)
NanSeries(n) == [b \in 0..(n - 1) |-> NanValue]

RECURSIVE SumOf(_, _, _)
\* data[lo] + ... + data[hi] of a series of whole numbers or fractions
SumOf(data, lo, hi) ==
    IF hi < lo THEN Whole(0) ELSE FAdd(SumOf(data, lo, hi - 1), data[hi])

\* the mean of data[lo..hi]
MeanOf(data, lo, hi) == FScale(SumOf(data, lo, hi), 1, hi - lo + 1)

RECURSIVE Smooth(_, _, _, _, _)
\* the recurrence shared by exponential and Wilder smoothing, bar i >= window - 1:
\* seed = mean of the first window values, then
\* value[i] = data[i] * kn / kd + value[i-1] * (1 - kn / kd)
Smooth(data, window, kn, kd, i) ==
    IF i = window - 1 THEN MeanOf(data, 0, window - 1)
    ELSE FAdd(FScale(data[i], kn, kd),
              FScale(Smooth(data, window, kn, kd, i - 1), kd - kn, kd))

\* an exponential smoothing seeded with the first input at bar 0
EmaSeededWithFirstBar(close, n, window) ==
    [b \in 0..(n - 1) |-> Smooth(close, 1, 2, window + 1, b)]

\* kernels/ema.py ema_kernel, lines 116-162 with the CUDA source 12-51:
\* k = 2 / (window + 1)
ema_kernel(close, n, window) ==
    IF n < window THEN NanSeries(n)
    ELSE [b \in 0..(n - 1) |->
             IF b < window - 1 THEN NanValue
             ELSE Smooth(close, window, 2, window + 1, b)]

\* indicators.py ema_gpu, lines 57-106
ema_gpu(close, n, window) ==
    IF n < window THEN NanSeries(n)
    ELSE [b \in 0..(n - 1) |->
             IF b < window - 1 THEN NanValue
             ELSE Smooth(close, window, 2, window + 1, b)]

\* indicators.py true_range_gpu, lines 218-269
true_range_gpu(high, low, close, n) ==
    [b \in 0..(n - 1) |->
        IF b = 0 THEN FSub(high[0], low[0])
        ELSE FMax(FMax(FSub(high[b], low[b]), FAbs(FSub(high[b], close[b - 1]))),
                  FAbs(FSub(low[b], close[b - 1])))]

\* kernels/ema.py wilder_smooth_kernel, lines 165-207 with the CUDA source
\* 55-93: alpha = 1 / window
wilder_smooth_kernel(values, n, window) ==
    IF n < window THEN NanSeries(n)
    ELSE [b \in 0..(n - 1) |->
             IF b < window - 1 THEN NanValue
             ELSE Smooth(values, window, 1, window, b)]

\* indicators.py atr_wilder_gpu, lines 294-347
atr_wilder_gpu(high, low, close, n, window) ==
    IF n < window THEN NanSeries(n)
    ELSE [b \in 0..(n - 1) |->
             IF b < window - 1 THEN NanValue
             ELSE Smooth(true_range_gpu(high, low, close, n), window, 1, window, b)]

\* the largest of data[lo..hi]
MaxOf(data, lo, hi) ==
    CHOOSE m \in {data[j] : j \in lo..hi} : \A j \in lo..hi : ~FLess(m, data[j])

\* kernels/rolling.py rolling_max_kernel, lines 220-259 with the CUDA source 12-41
rolling_max_kernel(data, n, window) ==
    IF n < window THEN NanSeries(n)
    ELSE [b \in 0..(n - 1) |->
             IF b < window - 1 THEN NanValue ELSE MaxOf(data, b - window + 1, b)]

\* indicators.py rolling_max_gpu, lines 109-137: no test of the length, the
\* loop range(window - 1, num_bars) is empty on a short series
rolling_max_gpu(data, n, window) ==
    [b \in 0..(n - 1) |->
        IF b \in (window - 1)..(n - 1) THEN MaxOf(data, b - window + 1, b)
        ELSE NanValue]

\* the population variance of data[lo..hi]; the standard deviation is its
\* square root, and is kept as the variance it is the root of
VarianceOf(data, lo, hi) ==
    CHOOSE v \in
        {MeanOf([j \in lo..hi |-> FScale(FSub(data[j], mean), FSub(data[j], mean).num,
                                         FSub(data[j], mean).den)], lo, hi) :
            mean \in {MeanOf(data, lo, hi)}} : TRUE

\* kernels/rolling.py rolling_std_kernel, lines 388-427 with the CUDA source
\* 137-174
rolling_std_kernel(data, n, window) ==
    IF n < window THEN NanSeries(n)
    ELSE [b \in 0..(n - 1) |->
             IF b < window - 1 THEN NanValue ELSE VarianceOf(data, b - window + 1, b)]

\* test_kernels.py rolling_std_loop, lines 204-209: cp.std of each window
rolling_std_loop(data, n, window) ==
    [b \in 0..(n - 1) |->
        IF b \in (window - 1)..(n - 1) THEN VarianceOf(data, b - window + 1, b)
        ELSE NanValue]

\* the gains (sign = 1) or losses (sign = -1) of a close series: bar 0 has none
GainsOf(close, n, sign) ==
    [b \in 0..(n - 1) |->
        IF b = 0 THEN Whole(0)
        ELSE IF FLess(Whole(0), FScale(FSub(close[b], close[b - 1]), sign, 1))
        THEN FScale(FSub(close[b], close[b - 1]), sign, 1)
        ELSE Whole(0)]

\* RSI = 100 - 100 / (1 + avg_gain / (avg_loss + 1e-10)): with no loss the
\* quotient is 0 without gain and beyond every bound of the model with gain
RsiValue(avg_gain, avg_loss) ==
    IF IsNan(avg_gain) \/ IsNan(avg_loss) THEN NanValue
    ELSE IF avg_loss.num = 0 THEN (IF avg_gain.num = 0 THEN Whole(0) ELSE Whole(100))
    ELSE Frac(100 * avg_gain.num * avg_loss.den,
              avg_gain.num * avg_loss.den + avg_loss.num * avg_gain.den)

RECURSIVE RsiKernelAverage(_, _, _)
\* CUDA source of rsi_kernel, lines 33-46 and 53-64: seed at bar period with
\* the mean of values[1..period], then avg * (1 - alpha) + value * alpha
RsiKernelAverage(values, period, i) ==
    IF i = period THEN MeanOf(values, 1, period)
    ELSE FAdd(FScale(RsiKernelAverage(values, period, i - 1), period - 1, period),
              FScale(values[i], 1, period))

\* kernels/rsi.py rsi_kernel, lines 83-122 with the CUDA source 12-70
rsi_kernel(close, n, period) ==
    IF n <= period THEN NanSeries(n)
    ELSE [b \in 0..(n - 1) |->
             IF b < period THEN NanValue
             ELSE RsiValue(RsiKernelAverage(GainsOf(close, n, 1), period, b),
                           RsiKernelAverage(GainsOf(close, n, 0 - 1), period, b))]

RECURSIVE RsiGpuAverage(_, _, _)
\* rsi_gpu, lines 562-568: (avg[i-1] * (period - 1) + value[i]) / period
RsiGpuAverage(values, period, i) ==
    IF i = period THEN MeanOf(values, 1, period)
    ELSE FScale(FAdd(FScale(RsiGpuAverage(values, period, i - 1), period - 1, 1),
                     values[i]), 1, period)

\* rsi_gpu, lines 561-563: the seed is stored at index period when
\* num_bars >= period, which is outside the array when num_bars = period
RsiGpuRaises(n, period) == n >= period /\ ~(period \in 0..(n - 1))

\* indicators.py rsi_gpu, lines 525-577, where it does not raise
rsi_gpu(close, n, period) ==
    [b \in 0..(n - 1) |->
        IF n >= period /\ b >= period
        THEN RsiValue(RsiGpuAverage(GainsOf(close, n, 1), period, b),
                      RsiGpuAverage(GainsOf(close, n, 0 - 1), period, b))
        ELSE NanValue]

\* (high + low) / 2 + sign * multiplier * atr, lines 68-70 and 93-95 of the
\* CUDA source, lines 393-396 of indicators.py
BasicBand(high, low, atr, multiplier, sign, i) ==
    FAdd(FScale(FAdd(high[i], low[i]), 1, 2), FScale(atr[i], sign * multiplier, 1))

\* a band that follows its basic band whatever the previous band and close
FinalBandFollowsBasic(basic, prev_band, prev_close, sign) == basic

\* lines 98-108 of the CUDA source, lines 418-436 of indicators.py: the final
\* upper band (sign = 1) takes the basic band when that is lower than the
\* previous band or the previous close is above the previous band; the final
\* lower band (sign = -1) mirrors it
FinalBand(basic, prev_band, prev_close, sign) ==
    IF FLess(FScale(basic, sign, 1), FScale(prev_band, sign, 1))
          \/ FLess(FScale(prev_band, sign, 1), FScale(prev_close, sign, 1))
    THEN basic ELSE prev_band

\* a trend flag that flips on touching the band
TrendFlagFlipsOnTouch(was_uptrend, curr_close, final_upper, final_lower) ==
    IF was_uptrend THEN FLess(final_lower, curr_close)
    ELSE ~FLess(curr_close, final_upper)

\* lines 113-119 of the CUDA source, lines 441-446 of indicators.py
TrendFlag(was_uptrend, curr_close, final_upper, final_lower) ==
    IF was_uptrend THEN ~FLess(curr_close, final_lower)
    ELSE FLess(final_upper, curr_close)

RECURSIVE SupertrendState(_, _, _, _, _, _, _)
\* the bands and the trend flag at bar i >= start = atr_period - 1, given the
\* ATR series: lines 66-80 and 83-129 of the CUDA source, lines 404-453 of
\* indicators.py
SupertrendState(high, low, close, atr, multiplier, start, i) ==
    IF i = start
    THEN [upper |-> BasicBand(high, low, atr, multiplier, 1, i),
          lower |-> BasicBand(high, low, atr, multiplier, 0 - 1, i),
          up |-> FALSE]
    ELSE CHOOSE r \in
            {[upper |-> bands[1], lower |-> bands[2],
              up |-> TrendFlag(prev.up, close[i], bands[1], bands[2])] :
             <<prev, bands>> \in
                {<<p, <<FinalBand(BasicBand(high, low, atr, multiplier, 1, i),
                                  p.upper, close[i - 1], 1),
                        FinalBand(BasicBand(high, low, atr, multiplier, 0 - 1, i),
                                  p.lower, close[i - 1], 0 - 1)>> >> :
                    p \in {SupertrendState(high, low, close, atr, multiplier, start, i - 1)}}} :
            TRUE

\* the four outputs over the bars 0..n-1: unknown (direction: down) below the
\* first valid bar atr_period - 1
SupertrendRows(high, low, close, atr, multiplier, n, atr_period) ==
    CHOOSE rows \in
        {[st |-> [b \in 0..(n - 1) |->
                    IF b < atr_period - 1 THEN NanValue
                    ELSE IF states[b].up THEN states[b].lower ELSE states[b].upper],
          direction |-> [b \in 0..(n - 1) |-> b >= atr_period - 1 /\ states[b].up],
          upper |-> [b \in 0..(n - 1) |->
                    IF b < atr_period - 1 THEN NanValue ELSE states[b].upper],
          lower |-> [b \in 0..(n - 1) |->
                    IF b < atr_period - 1 THEN NanValue ELSE states[b].lower]] :
         states \in
            {[b \in (atr_period - 1)..(n - 1) |->
                SupertrendState(high, low, close, atr, multiplier, atr_period - 1, b)]}} :
        TRUE

\* kernels/supertrend.py supertrend_kernel, lines 144-211 with the CUDA source
\* 12-130: true range and Wilder ATR are computed in the same pass
supertrend_kernel(high, low, close, n, atr_period, multiplier) ==
    IF n < atr_period
    THEN [st |-> NanSeries(n), direction |-> [b \in 0..(n - 1) |-> FALSE],
          upper |-> NanSeries(n), lower |-> NanSeries(n)]
    ELSE SupertrendRows(high, low, close,
                        wilder_smooth_kernel(true_range_gpu(high, low, close, n),
                                             n, atr_period),
                        multiplier, n, atr_period)

\* indicators.py supertrend_gpu, lines 354-466
supertrend_gpu(high, low, close, n, atr_period, multiplier) ==
    SupertrendRows(high, low, close, atr_wilder_gpu(high, low, close, n, atr_period),
                   multiplier, n, atr_period)

\* ---- one kernel and its reference loop on the same inputs, as
\* ---- test_kernels.py runs them ----
KernelKinds == {"ema", "wilder", "rolling_max", "rsi", "rolling_std", "supertrend"}

\* the series a + d, bar by bar, as values
Shifted(series, d) == [b \in DOMAIN series |-> Whole(series[b] + d)]

kernelHigh == Shifted(kern_args.close, kern_args.spread)
kernelLow == Shifted(kern_args.close, 0 - kern_args.spread)
kernelClose == Shifted(kern_args.close, 0)

KernelValue(kind) ==
    CASE kind = "ema" -> ema_kernel(kernelClose, kern_args.n, kern_args.window)
      [] kind = "wilder" ->
            wilder_smooth_kernel(
                true_range_gpu(kernelHigh, kernelLow, kernelClose, kern_args.n),
                kern_args.n, kern_args.window)
      [] kind = "rolling_max" ->
            rolling_max_kernel(kernelHigh, kern_args.n, kern_args.window)
      [] kind = "rsi" -> rsi_kernel(kernelClose, kern_args.n, kern_args.window)
      [] kind = "rolling_std" ->
            rolling_std_kernel(kernelClose, kern_args.n, kern_args.window)
      [] kind = "supertrend" ->
            supertrend_kernel(kernelHigh, kernelLow, kernelClose, kern_args.n,
                              kern_args.window, kern_args.multiplier)

ReferenceValue(kind) ==
    CASE kind = "ema" -> ema_gpu(kernelClose, kern_args.n, kern_args.window)
      [] kind = "wilder" ->
            atr_wilder_gpu(kernelHigh, kernelLow, kernelClose, kern_args.n,
                           kern_args.window)
      [] kind = "rolling_max" ->
            rolling_max_gpu(kernelHigh, kern_args.n, kern_args.window)
      [] kind = "rsi" -> rsi_gpu(kernelClose, kern_args.n, kern_args.window)
      [] kind = "rolling_std" ->
            rolling_std_loop(kernelClose, kern_args.n, kern_args.window)
      [] kind = "supertrend" ->
            supertrend_gpu(kernelHigh, kernelLow, kernelClose, kern_args.n,
                           kern_args.window, kern_args.multiplier)

\* the reference loop raises: only rsi_gpu can
ReferenceRaises(kind) == kind = "rsi" /\ RsiGpuRaises(kern_args.n, kern_args.window)

\* the kernel is called
CallKernel ==
    /\ kern_args # <<>>
    /\ kern_out = <<>>
    /\ kern_out' = [raised |-> FALSE, value |-> KernelValue(kern_args.kind)]
    /\ UNCHANGED <<kern_args, ref_out>>
    /\ UNCHANGED <<scanVars, graphVars, cacheVars, batchVars, sweepVars, metricsVars>>

\* the reference loop is called
CallReference ==
    /\ kern_args # <<>>
    /\ ref_out = <<>>
    /\ ref_out' = IF ReferenceRaises(kern_args.kind)
                  THEN [raised |-> TRUE, value |-> <<>>]
                  ELSE [raised |-> FALSE, value |-> ReferenceValue(kern_args.kind)]
    /\ UNCHANGED <<kern_args, kern_out>>
    /\ UNCHANGED <<scanVars, graphVars, cacheVars, batchVars, sweepVars, metricsVars>>

\* no kernel is run
KernelIdle ==
    /\ kern_args = <<>>
    /\ kern_out = <<>>
    /\ ref_out = <<>>

(***************************************************************************)
(* Specifications                                                          *)
(***************************************************************************)
\* the position scan is not run
ScanUnused ==
    /\ entry_signals = <<>>
    /\ exit_signals = <<>>
    /\ open_prices = <<>>
    /\ close_prices = <<>>
    /\ fees_bps = 0
    /\ qty_per_trade = 0
    /\ ScanIdle

\* topological_sort has not been called directly
SortIdle ==
    sort_call = [called |-> FALSE, specs |-> {}, raised |-> FALSE,
                 result |-> <<>>, missing |-> {}]

NoSynthetic == syn_deps = <<>>

\* the position scan alone: nothing else is constructed
ScanAloneInit ==
    /\ ScanInit
    /\ NoSynthetic /\ SortIdle
    /\ workload = {}
    /\ CacheFresh /\ BatchIdle /\ SweepIdle /\ MetricsIdle /\ KernelIdle

SpecScan == ScanAloneInit /\ [][ScanNext]_vars

\* ---- topological_sort called directly, as test_batched.py does ----
SynNodes == 1..MaxSynNodes

\* the dependency tables of the synthetic identifiers: at most MaxSynEdges
\* edges, self-dependencies and cycles included
SynTables ==
    {[i \in SynNodes |-> {j \in SynNodes : <<i, j>> \in E}] :
        E \in {F \in SUBSET (SynNodes \X SynNodes) : Cardinality(F) <= MaxSynEdges}}

SortInit ==
    /\ \/ /\ NoSynthetic
          /\ \E a \in DeclaredSpecs, b \in DeclaredSpecs : workload = {a, b}
       \/ /\ syn_deps \in SynTables
          /\ workload \in SUBSET {SynSpec(i) : i \in SynNodes}
    /\ SortIdle
    /\ num_bars = MaxBars
    /\ ScanUnused /\ CacheFresh /\ BatchIdle /\ SweepIdle /\ MetricsIdle /\ KernelIdle

\* topological_sort(specs), lines 216-264; the function keeps no state, so
\* one call per request is followed
CallTopologicalSort(specs) ==
    /\ ~sort_call.called
    /\ \E outcome \in TopologicalSort(specs) :
          sort_call' = [called |-> TRUE, specs |-> specs, raised |-> outcome.raised,
                        result |-> outcome.result, missing |-> outcome.missing]
    /\ UNCHANGED <<scanVars, syn_deps, cacheVars, batchVars, sweepVars, metricsVars, kernelVars>>

SortNext == CallTopologicalSort(workload)

SpecSort == SortInit /\ [][SortNext]_vars

\* ---- one BatchedIndicatorCache and its callers ----
\* the entries a request for spec can touch on an empty cache: its closure
\* and what the computations of the closure write besides their own entry
Footprint(spec) ==
    LET closure == ExpandDependencies({spec})
    IN  closure \cup UNION {DOMAIN Compute(x, EmptyCache).cache : x \in closure}

\* the callers ask for one identifier, or for two whose footprints overlap
\* (requests with disjoint footprints do not act on each other)
CacheInit ==
    /\ num_bars = MaxBars
    /\ \E a \in DeclaredSpecs, b \in DeclaredSpecs :
          /\ Footprint(a) \cap Footprint(b) # {}
          /\ workload = {a, b}
    /\ CacheFresh
    /\ ScanUnused /\ NoSynthetic /\ SortIdle /\ BatchIdle /\ SweepIdle /\ MetricsIdle /\ KernelIdle

\* The callers are followed up to a lookup: a lookup leaves the cache as it
\* was, so what can follow it is what can follow the state before it.
CallEnsureComputed(specs) ==
    /\ last_get = NoGet
    /\ EnsureComputed(specs)
    /\ UNCHANGED <<scanVars, graphVars, batchVars, sweepVars, metricsVars, kernelVars>>

CallGet(spec) == last_get = NoGet /\ Get(spec)

CallGetOrNone(spec) == last_get = NoGet /\ GetOrNone(spec)

CallClear == last_get = NoGet /\ Clear

CacheNext ==
    \/ \E specs \in SUBSET workload : CallEnsureComputed(specs)
    \/ \E spec \in workload : CallGet(spec)
    \/ \E spec \in workload : CallGetOrNone(spec)
    \/ CallClear

Spec == CacheInit /\ [][CacheNext]_vars

\* ---- compute_signals_batched on a fresh cache ----
\* lengths of the price series: short ones, and for the parabolic SAR
\* generator, which masks the first SarWarmup bars, one long enough to leave
\* bars unmasked
SignalBars(family) ==
    (1..MaxBars) \cup (IF family = "parabolic_sar" THEN {LongBars} ELSE {})

BatchInit ==
    /\ strategy_name \in BatchedFamilies \cup OtherFamilies
    /\ num_bars \in SignalBars(strategy_name)
    /\ configs \in Batches(strategy_name)
    /\ batch_pc = "ready"
    /\ entry_out = <<>>
    /\ exit_out = <<>>
    /\ workload = {}
    /\ CacheFresh
    /\ ScanUnused /\ NoSynthetic /\ SortIdle /\ SweepIdle /\ MetricsIdle /\ KernelIdle

BatchNext == EnsureBatchIndicators \/ ComputeSignalsBatched

SpecBatch == BatchInit /\ [][BatchNext]_vars

\* ---- one cache over series of every length, short ones included ----
\* every IndicatorSpec of a declared kind with periods up to MaxSigPeriod
WindowedSpecs ==
    {IndicatorSpec("TRUE_RANGE", <<>>)}
    \cup {IndicatorSpec(ty, <<p>>) : ty \in OnePeriodTypes, p \in SigPeriods}
    \cup {IndicatorSpec(ty, <<p, m>>) : ty \in PeriodMultTypes, p \in SigPeriods, m \in MultInts}
    \cup {IndicatorSpec(ty, <<p, q>>) : ty \in TwoPeriodTypes, p \in SigPeriods, q \in SigPeriods}
    \cup UNION {{IndicatorSpec(ty, <<p, q, m>>) : ty \in TwoPeriodMultTypes, p \in SigPeriods, q \in SigPeriods}
                : m \in MultInts}
    \cup UNION {{IndicatorSpec(ty, <<p, q, r>>) : ty \in ThreePeriodTypes, p \in SigPeriods, q \in SigPeriods}
                : r \in SigPeriods}

\* a cache over a series of 1..MaxBars bars, asked for one identifier
WindowInit ==
    /\ num_bars \in 1..MaxBars
    /\ \E a \in WindowedSpecs : workload = {a}
    /\ CacheFresh
    /\ ScanUnused /\ NoSynthetic /\ SortIdle /\ BatchIdle /\ SweepIdle /\ MetricsIdle /\ KernelIdle

SpecWindow == WindowInit /\ [][CacheNext]_vars

\* ---- run_sweep ----
\* config.symbols: one symbol, or two
SymbolLists == UNION {[1..n -> SymbolData] : n \in {1, 2}}

\* config.strategies: one family (one of each shape of rule and grid), or
\* two families that share an identifier
StrategyLists ==
    {<<f>> : f \in {"donchian", "ma_crossover", "supertrend", "parabolic_sar",
                     "rsi", "macd", "keltner", "starc"}}
        \cup {<<"keltner", "starc">>, <<"starc", "keltner">>}

\* config.backtest.initial_cash: the default of config.py, or twice as much
ConfiguredCash == {InitialCash, 2 * InitialCash}

SweepInit ==
    /\ symbols \in SymbolLists
    /\ strategies \in StrategyLists
    /\ initial_cash \in ConfiguredCash
    /\ batch_size \in EstimateBatchSize
    /\ symbol_idx = 1
    /\ strategy_idx = 0
    /\ batch_start = 0
    /\ all_results = <<>>
    /\ sweep_pc = "symbol"
    /\ sweep_error = "none"
    /\ sweep_log = <<>>
    /\ num_bars = 0
    /\ workload = {}
    /\ CacheFresh
    /\ ScanUnused /\ NoSynthetic /\ SortIdle /\ BatchIdle /\ MetricsIdle /\ KernelIdle

SweepNext ==
    \/ SkipSymbolLoadError
    \/ SkipSymbolTooFewBars
    \/ LoadSymbol
    \/ RunStrategyBatch
    \/ \E stage \in BatchStages : BatchRaises(stage)
    \/ ReturnResults

SpecSweep == SweepInit /\ [][SweepNext]_vars

\* ---- compute_all_metrics_gpu on one equity curve ----
\* equity curves of 1..MaxCurveLen bars over the amounts -1..MaxEquity
EquityCurves == UNION {[1..n -> (0 - 1)..MaxEquity] : n \in 1..MaxCurveLen}

MetricsInit ==
    /\ \E eq \in EquityCurves, cash0 \in 0..MaxEquity, yrs \in 0..MaxYears :
          metrics_args = [equity |-> eq, initial_cash |-> cash0, years |-> yrs]
    /\ metrics = <<>>
    /\ trade_stats = <<>>
    /\ running_max = [called |-> FALSE, arr |-> <<>>, result |-> <<>>]
    /\ num_bars = 0
    /\ workload = {}
    /\ CacheFresh
    /\ ScanUnused /\ NoSynthetic /\ SortIdle /\ BatchIdle /\ SweepIdle /\ KernelIdle

SpecMetrics == MetricsInit /\ [][ComputeAllMetricsGpu]_vars

\* ---- the position scan over five bars whose open equals the close ----
\* the closing prices of the five bars
ScenarioClose == <<100, 105, 103, 108, 107>>

\* the first configuration has its entry signal at one bar and its exit
\* signal at one bar
ScenarioInit ==
    /\ num_bars = Len(ScenarioClose)
    /\ \E i \in 0..(Len(ScenarioClose) - 1), j \in 0..(Len(ScenarioClose) - 1),
          k \in 1..3 :
          /\ entry_signals = [c \in Configs |->
                [b \in 0..(Len(ScenarioClose) - 1) |->
                    IF c = 1 THEN b = i ELSE StockEntry(k, b)]]
          /\ exit_signals = [c \in Configs |->
                [b \in 0..(Len(ScenarioClose) - 1) |->
                    IF c = 1 THEN b = j ELSE StockExit(k, b)]]
    /\ open_prices = [b \in 0..(Len(ScenarioClose) - 1) |-> ScenarioClose[b + 1]]
    /\ close_prices = open_prices
    /\ fees_bps \in {0, 10}
    /\ qty_per_trade \in {1, 100}
    /\ ScanIdle
    /\ NoSynthetic /\ SortIdle
    /\ workload = {}
    /\ CacheFresh /\ BatchIdle /\ SweepIdle /\ MetricsIdle /\ KernelIdle

SpecScenario == ScenarioInit /\ [][ScanNext]_vars

\* ---- _running_max_gpu on rows of 0..MaxRowLen bars ----
RunningMaxInit ==
    /\ \E arr \in UNION {[1..n -> (0 - 1)..MaxEquity] : n \in 0..MaxRowLen} :
          running_max = [called |-> FALSE, arr |-> arr, result |-> <<>>]
    /\ metrics_args = <<>>
    /\ metrics = <<>>
    /\ trade_stats = <<>>
    /\ num_bars = 0
    /\ workload = {}
    /\ CacheFresh
    /\ ScanUnused /\ NoSynthetic /\ SortIdle /\ BatchIdle /\ SweepIdle /\ KernelIdle

SpecRunningMax == RunningMaxInit /\ [][CallRunningMaxGpu]_vars

\* ---- a kernel and its reference loop over short series ----
\* the close series of the smoothing example
SmoothingExample == [b \in 0..5 |-> b + 1]

\* close series of 1..MaxKernelBars bars over the prices 1..MaxPrice
KernelSeries ==
    UNION {[0..(n - 1) -> 1..MaxPrice] : n \in 1..MaxKernelBars} \cup {SmoothingExample}

\* high = close + spread and low = close - spread; the spread and the
\* multiplier vary where the kind reads them
KernelInit ==
    /\ \E close \in KernelSeries, window \in 1..MaxWindow, kind \in KernelKinds,
          spread \in 0..1, multiplier \in 1..2 :
          /\ spread = 0 \/ kind \in {"wilder", "supertrend"}
          /\ multiplier = 1 \/ kind = "supertrend"
          /\ kern_args = [kind |-> kind, n |-> Cardinality(DOMAIN close),
                          close |-> close, window |-> window, spread |-> spread,
                          multiplier |-> multiplier]
    /\ kern_out = <<>>
    /\ ref_out = <<>>
    /\ num_bars = 0
    /\ workload = {}
    /\ CacheFresh
    /\ ScanUnused /\ NoSynthetic /\ SortIdle /\ BatchIdle /\ SweepIdle /\ MetricsIdle

KernelNext == CallKernel \/ CallReference

SpecKernels == KernelInit /\ [][KernelNext]_vars

(***************************************************************************)
(* Claims about the position scan (checked under SpecScan)                 *)
(***************************************************************************)
ScanStarted == scan_pc \in {"loop", "done"}

\* C1: an entry fill is recorded only at a bar whose previous-bar state is
\* Flat and an exit fill only at a bar whose previous-bar state is Long; the
\* position is always 0 or 1; between two entry fills of one configuration
\* there is an exit fill.
C1_FillsRespectState ==
    ScanStarted =>
        \A c \in Configs :
            /\ \A b \in Bars : position[c][b] \in {0, 1}
            /\ ~entry_bars[c][0] /\ ~exit_bars[c][0]
            /\ \A b \in Bars \ {0} :
                  /\ entry_bars[c][b] => position[c][b - 1] = 0
                  /\ exit_bars[c][b] => position[c][b - 1] = 1
            /\ \A b1, b2 \in Bars :
                  (b1 < b2 /\ entry_bars[c][b1] /\ entry_bars[c][b2])
                      => \E b3 \in Bars : b1 < b3 /\ b3 < b2 /\ exit_bars[c][b3]

\* C1 witness: a finished run with two entry fills of configuration 1, and an
\* entry signal that arrived while Long and was not filled
C1_Witness ==
    /\ scan_pc = "done"
    /\ \E b1, b2 \in Bars : b1 < b2 /\ entry_bars[1][b1] /\ entry_bars[1][b2]
    /\ \E b \in Bars \ {0} :
          position[1][b - 1] = 1 /\ entry_signals[1][b - 1] /\ ~entry_bars[1][b]

\* the transition rule of the specification, section 4.5
TransitionRule(prev, e, x) ==
    IF prev = 0 /\ e THEN 1 ELSE IF prev = 1 /\ x THEN 0 ELSE prev

\* C2: the state starts Flat at bar 0 and at every bar t >= 1 follows the
\* transition rule on the state and the signals of bar t-1, also when entry
\* and exit are both true; for position_scan_with_fills_gpu and for
\* position_scan_gpu.
C2_TransitionRule ==
    /\ ScanStarted =>
          \A c \in Configs :
              /\ position[c][0] = 0
              /\ \A b \in 1..(t - 1) :
                    position[c][b] =
                        TransitionRule(position[c][b - 1], entry_signals[c][b - 1],
                                       exit_signals[c][b - 1])
    /\ position_only # <<>> =>
          \A c \in Configs :
              /\ position_only[c][0] = 0
              /\ \A b \in Bars \ {0} :
                    position_only[c][b] =
                        TransitionRule(position_only[c][b - 1],
                                       entry_signals[c][b - 1], exit_signals[c][b - 1])

\* C2 witness: both functions have run; entry and exit were both true at a
\* Flat bar (the next bar is Long) and at a Long bar (the next bar is Flat)
C2_Witness ==
    /\ scan_pc = "done"
    /\ position_only # <<>>
    /\ \E b \in Bars \ {0} :
          /\ entry_signals[1][b - 1] /\ exit_signals[1][b - 1]
          /\ position[1][b - 1] = 0 /\ position[1][b] = 1
    /\ \E b \in Bars \ {0} :
          /\ entry_signals[1][b - 1] /\ exit_signals[1][b - 1]
          /\ position[1][b - 1] = 1 /\ position[1][b] = 0
    /\ position_only = position

\* C3: a signal at bar b that causes a fill is filled at bar b+1 and the
\* cash change is computed from open[b+1]; every fill is caused by the signal
\* of the bar before; bar 0 has no fill, and since a fill at the last bar
\* belongs to the signal of the bar before it, the signal of the last bar
\* has no fill.
C3_FillAtNextOpen ==
    ScanStarted =>
        \A c \in Configs :
            /\ ~entry_bars[c][0] /\ ~exit_bars[c][0]
            /\ cash[c][0] = InitialCash * FeeScale
            /\ \A b \in 1..(t - 1) :
                  /\ entry_bars[c][b] <=>
                        (entry_signals[c][b - 1] /\ position[c][b - 1] = 0)
                  /\ exit_bars[c][b] <=>
                        (exit_signals[c][b - 1] /\ position[c][b - 1] = 1)
                  /\ entry_bars[c][b] =>
                        cash[c][b] = cash[c][b - 1]
                            - qty_per_trade * open_prices[b] * (FeeScale + fees_bps)
                  /\ exit_bars[c][b] =>
                        cash[c][b] = cash[c][b - 1]
                            + position_qty[c][b - 1] * open_prices[b]
                                  * (FeeScale - fees_bps)
                  /\ (~entry_bars[c][b] /\ ~exit_bars[c][b]) =>
                        cash[c][b] = cash[c][b - 1]
            /\ scan_pc = "done" =>
                  Cardinality({b \in Bars : entry_bars[c][b] \/ exit_bars[c][b]})
                      = Cardinality({b \in Bars :
                            /\ b < num_bars - 1
                            /\ \/ entry_signals[c][b] /\ position[c][b] = 0
                               \/ exit_signals[c][b] /\ position[c][b] = 1})

\* C3 witness: a finished run in which an entry and a later exit were filled,
\* with fees, and a signal on the last bar that could have been acted on
C3_Witness ==
    /\ scan_pc = "done"
    /\ fees_bps > 0
    /\ \E b1, b2 \in Bars : b1 < b2 /\ entry_bars[1][b1] /\ exit_bars[1][b2]
    /\ position[1][num_bars - 1] = 0 /\ entry_signals[1][num_bars - 1]

\* C14: at every bar b >= 1 an entry fill takes quantity x open[b] x
\* (1 + fee rate) from the cash of bar b-1 and sets the held quantity to
\* the quantity per trade; an exit fill adds held quantity x open[b] x
\* (1 - fee rate) and sets the held quantity to 0; without a fill cash and
\* held quantity carry over; in all cases equity[b] = cash[b] + held
\* quantity[b] x close[b], and the held quantity is nonzero exactly when
\* the state is Long.
C14_FillAccounting ==
    ScanStarted =>
        \A c \in Configs :
            /\ \A b \in 1..(t - 1) :
                  /\ entry_bars[c][b] =>
                        /\ cash[c][b] = cash[c][b - 1]
                              - qty_per_trade * open_prices[b] * (FeeScale + fees_bps)
                        /\ position_qty[c][b] = qty_per_trade
                  /\ exit_bars[c][b] =>
                        /\ cash[c][b] = cash[c][b - 1]
                              + position_qty[c][b - 1] * open_prices[b]
                                    * (FeeScale - fees_bps)
                        /\ position_qty[c][b] = 0
                  /\ (~entry_bars[c][b] /\ ~exit_bars[c][b]) =>
                        /\ cash[c][b] = cash[c][b - 1]
                        /\ position_qty[c][b] = position_qty[c][b - 1]
                  /\ equity[c][b] =
                        cash[c][b] + position_qty[c][b] * close_prices[b] * FeeScale
            /\ \A b \in 0..(t - 1) :
                  (position_qty[c][b] # 0) <=> (position[c][b] = 1)

\* C14 witness: a finished run with fees in which a position was entered,
\* held over a bar without a fill, and exited
C14_Witness ==
    /\ scan_pc = "done"
    /\ fees_bps > 0
    /\ \E b1, b2, b3 \in Bars :
          /\ b1 < b2 /\ b2 < b3
          /\ entry_bars[1][b1]
          /\ ~entry_bars[1][b2] /\ ~exit_bars[1][b2] /\ position[1][b2] = 1
          /\ exit_bars[1][b3]

(***************************************************************************)
(* Claims about the dependency graph (checked under SpecSort)              *)
(***************************************************************************)
RECURSIVE DependencyClosure(_)
\* the least set that contains S and the dependencies of its members
DependencyClosure(S) ==
    LET next == S \cup UNION {DepSet(s) : s \in S}
    IN  IF next = S THEN S ELSE DependencyClosure(next)

\* position of spec in the list seq (0 when it is absent)
IndexOf(seq, spec) ==
    IF spec \in Range(seq) THEN CHOOSE k \in 1..Len(seq) : seq[k] = spec ELSE 0

\* C4: for a request built from the declared indicator kinds,
\* topological_sort returns a list that holds each identifier of the
\* transitive dependency closure of the request, and nothing else, exactly
\* once, and in which every identifier comes after every identifier its
\* dependencies() returns.
C4_SortedClosure ==
    (sort_call.called /\ sort_call.specs \subseteq DeclaredSpecs) =>
        LET result == sort_call.result
            closure == DependencyClosure(sort_call.specs)
        IN  /\ ~sort_call.raised
            /\ Range(result) = closure
            /\ Len(result) = Cardinality(closure)
            /\ \A k \in 1..Len(result) :
                  \A dep \in DepSet(result[k]) :
                      /\ IndexOf(result, dep) >= 1
                      /\ IndexOf(result, dep) < k

\* C4 witness: a sorted request of two declared identifiers whose closure
\* holds dependencies of dependencies
C4_Witness ==
    /\ sort_call.called
    /\ ~sort_call.raised
    /\ Cardinality(sort_call.specs) = 2
    /\ sort_call.specs \subseteq DeclaredSpecs
    /\ \E s \in Range(sort_call.result) :
          /\ s \notin sort_call.specs
          /\ s \notin UNION {DepSet(x) : x \in sort_call.specs}

\* the identifiers of the closure of S that lie on a dependency cycle
OnCycle(S) ==
    {s \in DependencyClosure(S) : s \in DependencyClosure(DepSet(s))}

\* the identifiers of the closure of S that Kahn's algorithm cannot emit:
\* those on a cycle and those that depend, directly or not, on one of them
Unresolved(S) ==
    {s \in DependencyClosure(S) : DependencyClosure({s}) \cap OnCycle(S) # {}}

\* C8: when the dependency relation reachable from a request has a cycle,
\* topological_sort raises instead of returning a shortened list, and the
\* error names exactly the identifiers that were not emitted, the unresolved
\* subset.
C8_CycleRaises ==
    (sort_call.called /\ OnCycle(sort_call.specs) # {}) =>
        /\ sort_call.raised
        /\ sort_call.result = <<>>
        /\ sort_call.missing = Unresolved(sort_call.specs)

\* C8 witness: a request whose closure has a cycle was sorted; the error
\* names the cycle and an identifier that depends on it, and leaves out an
\* identifier that was emitted
C8_Witness ==
    /\ sort_call.called
    /\ sort_call.raised
    /\ OnCycle(sort_call.specs) # {}
    /\ sort_call.missing # OnCycle(sort_call.specs)
    /\ sort_call.missing # DependencyClosure(sort_call.specs)

(***************************************************************************)
(* Claims about the cache (checked under Spec)                             *)
(***************************************************************************)
\* C5: on one cache, over any sequence of ensure_computed calls, each
\* identifier is computed exactly once: its cache entry is written once and
\* is never recomputed or overwritten until clear().
C5_ComputedOnce == \A s \in DOMAIN writes : writes[s] = 1

\* C6: during ensure_computed, when the computation of an identifier starts,
\* every identifier returned by its dependencies() is already in the cache,
\* and nothing is computed out of the sorted order.
C6_DependenciesPresent ==
    \A e \in compute_log : e.missing = {} /\ ~e.nested

\* C7: get(spec) for an identifier that is not in the cache fails with the
\* "not computed" error, computes nothing and leaves the cache unchanged;
\* get(spec) for a cached identifier returns its entry; there is no
\* computation on a miss.
C7_GetNeverComputes ==
    [][(last_get' # last_get /\ last_get'.op = "get") =>
          /\ cache' = cache
          /\ writes' = writes
          /\ compute_log' = compute_log
          /\ last_get'.raised = (last_get'.spec \notin DOMAIN cache)
          /\ last_get'.spec \in DOMAIN cache =>
                last_get'.value = cache[last_get'.spec]]_vars

\* C7 witness: a get that missed on a cache that holds other entries
C7_Witness ==
    /\ last_get.op = "get"
    /\ last_get.raised
    /\ last_get.spec \notin DOMAIN cache
    /\ DOMAIN cache # {}

(***************************************************************************)
(* Claims about signal generation (checked under SpecBatch)                *)
(***************************************************************************)
\* C9: for every strategy family, configuration and bar t, entry[c,t] and
\* exit[c,t] are computed from price data of bars 0..t only; the wrap-around
\* of the shifts by one bar and by lookback bars never feeds a later bar
\* into an unmasked bar.
C9_NoLookahead ==
    batch_pc = "done" =>
        \A i \in 1..Len(configs) :
            \A b \in Bars :
                /\ \A r \in BarsRead(entry_out[i][b]) : r <= b
                /\ \A r \in BarsRead(exit_out[i][b]) : r <= b

\* C9 witness: a family that compares with the previous bar produced a
\* signal that reads its own bar and the bar before it, while bar 0, where
\* the shift wraps around, reads nothing
C9_Witness ==
    /\ batch_pc = "done"
    /\ strategy_name \in {"donchian", "tsmom"}
    /\ num_bars >= 3
    /\ BarsRead(entry_out[1][0]) = {}
    /\ \E b \in Bars :
          /\ b >= 1
          /\ b \in BarsRead(entry_out[1][b])
          /\ (b - 1) \in BarsRead(entry_out[1][b])

\* C10: for every family with a batched signal generator and every
\* non-empty config list, after
\* ensure_computed(collect_strategy_indicators(family, configs)) on a fresh
\* cache every identifier the generator looks up with get is cached, and
\* signal generation does not fail with "not computed".
C10_LookupsCached ==
    strategy_name \in BatchedFamilies =>
        /\ batch_pc \in {"ensured", "done"} =>
              /\ last_error = "none"
              /\ SignalLookups(strategy_name, configs) \subseteq DOMAIN cache
        /\ batch_pc # "failed"

\* C10 witness: a supertrend batch of two different configurations was
\* generated; the direction arrays it looks up were never requested
C10_Witness ==
    /\ batch_pc = "done"
    /\ strategy_name = "supertrend"
    /\ Len(configs) = 2
    /\ configs[1] # configs[2]
    /\ SignalLookups(strategy_name, configs)
          \cap CollectStrategyIndicators(strategy_name, configs) = {}
    /\ SignalLookups(strategy_name, configs) \subseteq DOMAIN cache

\* the families whose rule compares against the previous bar (cp.roll by 1)
PreviousBarFamilies ==
    {"donchian", "ma_crossover", "supertrend", "parabolic_sar", "rsi", "macd",
     "aroon", "tsmom", "stochastic", "dmi_adx"}

\* the largest lookback among the indicators of one config
MaxLookback(family, cfg) ==
    CASE family = "donchian" -> Max(cfg.entry_lookback, cfg.exit_lookback)
      [] family = "ma_crossover" -> Max(cfg.fast_period, cfg.slow_period)
      [] family = "supertrend" -> cfg.atr_period
      [] family \in {"fifty_two_week", "bollinger", "rsi", "aroon"} -> cfg.period
      [] family = "parabolic_sar" -> SarAtrPeriod
      [] family = "macd" ->
            Max(Max(cfg.fast_period, cfg.slow_period), cfg.signal_period)
      [] family = "tsmom" -> cfg.lookback
      [] family = "keltner" -> Max(cfg.ema_period, cfg.atr_period)
      [] family = "starc" -> Max(cfg.sma_period, cfg.atr_period)
      [] family = "stochastic" -> Max(cfg.k_period, cfg.d_period)
      [] family = "dmi_adx" -> Max(cfg.di_period, cfg.adx_period)
      [] OTHER -> 0

\* the warm-up of the claim: the largest lookback, plus one where the rule
\* compares against the previous bar
ClaimedWarmup(family, cfg) ==
    MaxLookback(family, cfg) + (IF family \in PreviousBarFamilies THEN 1 ELSE 0)

\* the first bar the generator of the family assigns, for entry and for exit
MaskStart(family, cfg) ==
    CASE family = "donchian" ->
            [entry |-> cfg.entry_lookback, exit |-> cfg.exit_lookback]
      [] family = "ma_crossover" ->
            [entry |-> cfg.slow_period, exit |-> cfg.slow_period]
      [] family \in {"keltner", "starc", "fifty_two_week", "bollinger"} ->
            [entry |-> MaxLookback(family, cfg), exit |-> MaxLookback(family, cfg)]
      [] family = "macd" ->
            [entry |-> cfg.slow_period + cfg.signal_period,
             exit |-> cfg.slow_period + cfg.signal_period]
      [] family = "stochastic" ->
            [entry |-> cfg.k_period + cfg.d_period,
             exit |-> cfg.k_period + cfg.d_period]
      [] family = "dmi_adx" ->
            [entry |-> cfg.di_period + cfg.adx_period,
             exit |-> cfg.di_period + cfg.adx_period]
      [] OTHER ->
            [entry |-> ClaimedWarmup(family, cfg), exit |-> ClaimedWarmup(family, cfg)]

\* an element that is false whatever the prices: a masked one, or a
\* comparison with an unknown value
SurelyFalse(cell) == cell = {} \/ ~IsKnown(cell)

\* C16 as stated: for every family and configuration, entry and exit are
\* both false at every bar below the largest lookback of the config's
\* indicators, plus one where the rule compares against the previous bar.
C16_FalseBelowClaimedWarmup ==
    batch_pc = "done" =>
        \A i \in 1..Len(configs), b \in Bars :
            b < ClaimedWarmup(strategy_name, configs[i])
                => SurelyFalse(entry_out[i][b]) /\ SurelyFalse(exit_out[i][b])

\* C16, amended: entry is false at every bar below the first bar the
\* generator assigns to entry, and exit below the first bar it assigns to
\* exit: the lookback of the own channel for donchian, the slow period for
\* ma_crossover, the sum of the periods for macd, stochastic and dmi_adx,
\* and the warm-up of the claim for the other families.
C16_FalseBelowMaskStart ==
    batch_pc = "done" =>
        \A i \in 1..Len(configs), b \in Bars :
            /\ b < MaskStart(strategy_name, configs[i]).entry => entry_out[i][b] = {}
            /\ b < MaskStart(strategy_name, configs[i]).exit => exit_out[i][b] = {}

\* C16 witness: a crossover batch whose entry at the bar of the slow period
\* is computed from known averages, one bar below the warm-up of the claim,
\* while the bars before it are masked
C16_Witness ==
    /\ batch_pc = "done"
    /\ strategy_name = "ma_crossover"
    /\ \E i \in 1..Len(configs) :
          /\ configs[i].slow_period < num_bars
          /\ entry_out[i][configs[i].slow_period] # {}
          /\ IsKnown(entry_out[i][configs[i].slow_period])
          /\ \A b \in 0..(configs[i].slow_period - 1) : entry_out[i][b] = {}

(***************************************************************************)
(* Further claims about the cache (checked under Spec)                     *)
(***************************************************************************)
\* the four trend-band outputs of one (atr_period, mult_int)
SupertrendOutputs(params) ==
    {IndicatorSpec(ty, params) :
        ty \in {"SUPERTREND", "SUPERTREND_DIRECTION", "SUPERTREND_UPPER",
                "SUPERTREND_LOWER"}}

\* C11: between public cache operations, for every (atr_period, multiplier)
\* either all four trend-band outputs (SUPERTREND, SUPERTREND_DIRECTION,
\* SUPERTREND_UPPER, SUPERTREND_LOWER) are cached or none is, whichever was
\* requested first.
C11_SupertrendAtomic ==
    \A p \in Periods, m \in MultInts :
        \/ SupertrendOutputs(<<p, m>>) \subseteq DOMAIN cache
        \/ SupertrendOutputs(<<p, m>>) \cap DOMAIN cache = {}


(***************************************************************************)
(* Claims about short series (checked under SpecWindow)                    *)
(***************************************************************************)
\* the window of an identifier: the largest of its periods
Window(spec) ==
    IF spec.type = "TRUE_RANGE" THEN 0
    ELSE IF spec.type \in PeriodMultTypes \/ Len(spec.params) = 1 THEN spec.params[1]
    ELSE IF spec.type \in TwoPeriodMultTypes \/ Len(spec.params) = 2
         THEN Max(spec.params[1], spec.params[2])
    ELSE Max(Max(spec.params[1], spec.params[2]), spec.params[3])

\* the kinds _compute has a branch for
ComputableTypes == IndicatorType \ {"BOLLINGER_BANDWIDTH"}

AllUnknown(arr) == \A b \in Bars : ~IsKnown(arr[b])

\* C17 as stated: for every kind the cache can compute, on a series with
\* fewer bars than the window of the identifier the result is all unknown
\* and ensure_computed does not raise.
C17_ShortSeriesAllUnknown ==
    \A spec \in workload :
        (spec.type \in ComputableTypes /\ num_bars < Window(spec))
            => /\ last_error = "none"
               /\ spec \in DOMAIN cache => AllUnknown(cache[spec])

\* C17, amended: as stated for every kind but SUPERTREND_DIRECTION, whose
\* result is a boolean array and is all False on such a series.
C17_ShortSeriesUnknownOrFalse ==
    \A spec \in workload :
        (spec.type \in ComputableTypes /\ num_bars < Window(spec))
            => /\ last_error = "none"
               /\ spec \in DOMAIN cache =>
                     IF spec.type = "SUPERTREND_DIRECTION"
                     THEN cache[spec] = Zeros
                     ELSE AllUnknown(cache[spec])

\* C17 witness: the moving average of a window longer than the series has
\* been computed
C17_Witness ==
    /\ num_bars = 1
    /\ \E spec \in workload :
          /\ spec.type = "SMA"
          /\ Window(spec) > num_bars
          /\ spec \in DOMAIN cache
          /\ writes[spec] = 1
    /\ last_error = "none"

(***************************************************************************)
(* Claims about the metrics (checked under SpecMetrics)                    *)
(***************************************************************************)
\* the equity curve has the same value at every bar
ConstantEquity ==
    \A j \in DOMAIN metrics_args.equity, k \in DOMAIN metrics_args.equity :
        metrics_args.equity[j] = metrics_args.equity[k]

\* C18: for an equity curve that is constant over all bars, Sharpe,
\* Sortino, max drawdown and Calmar are each exactly 0, never NaN or
\* infinite.
C18_ConstantEquityZeroMetrics ==
    (metrics # <<>> /\ ConstantEquity) =>
        /\ metrics.sharpe = "zero"
        /\ metrics.sortino = "zero"
        /\ metrics.max_drawdown = "zero"
        /\ metrics.calmar = "zero"

\* C18 witness: the metrics of a constant curve of several bars whose value
\* differs from the initial cash, so that CAGR is not 0
C18_Witness ==
    /\ metrics # <<>>
    /\ ConstantEquity
    /\ Len(metrics_args.equity) = MaxCurveLen
    /\ metrics.cagr # "zero"
    /\ metrics.calmar = "zero"

(***************************************************************************)
(* Claims about run_sweep (checked under SpecSweep)                        *)
(***************************************************************************)
\* C12: while one symbol's dataset is swept a single cache serves every
\* batch and family of that dataset, so no identifier is computed by two
\* batch runs of the same symbol.
C12_OneCachePerDataset ==
    \A i \in 1..Len(sweep_log), j \in 1..Len(sweep_log) :
        (i < j /\ sweep_log[i].symbol = sweep_log[j].symbol)
            => sweep_log[i].computed \cap sweep_log[j].computed = {}

\* C15: in a sweep run with any configured initial cash, the simulated
\* equity at bar 0 of every row equals that cash, the base the metrics take
\* for total return and CAGR.
C15_EquityStartsAtConfiguredCash ==
    \A i \in 1..Len(all_results) :
        /\ all_results[i].metrics_base = initial_cash
        /\ all_results[i].equity_0 = initial_cash

\* C13: ensure_computed never fails with "not implemented" for identifiers
\* whose kind is a member of the IndicatorType enumeration.
C13_EveryKindDispatches ==
    (\A spec \in workload : spec.type \in IndicatorType)
        => last_error # "NotImplementedError"


\* C19 as stated: a symbol whose processing fails at any stage is skipped
\* and the sweep goes on to the other symbols: no failure ends run_sweep,
\* and the table returned holds the rows of every symbol that did not fail.
C19_FailedSymbolSkipped ==
    /\ sweep_pc # "raised"
    /\ sweep_pc = "done" =>
          \A s \in 1..Len(symbols) :
              (symbols[s].load = "ok" /\ symbols[s].bars >= MinSweepBars)
                  => \E i \in 1..Len(all_results) : all_results[i].symbol = s

\* the symbols run_sweep does not skip
ProcessedSymbols ==
    {s \in 1..Len(symbols) :
        symbols[s].load = "ok" /\ symbols[s].bars >= MinSweepBars}

\* the rows of one configuration of one family for one symbol
RowsOf(s, family, k) ==
    {i \in 1..Len(all_results) :
        /\ all_results[i].symbol = s
        /\ all_results[i].strategy_type = family
        /\ all_results[i].config_id = k}

\* the signals of one configuration computed on its own, on a cache that
\* holds the indicators of that configuration alone
ReferenceSignals(family, cfg) ==
    LET outcome == CHOOSE o \in TopologicalSort(ExpandDependencies(
                                    CollectStrategyIndicators(family, <<cfg>>))) :
                              ~o.raised
        st == EnsureLoop(outcome.result, 1,
                         [cache |-> EmptyCache, writes |-> EmptyCache, log |-> {},
                          error |-> "none"])
    IN  ConfigSignals(family, cfg, st.cache)

\* C20: for every processed symbol and enabled family the table returned
\* holds exactly one row per configuration of the family's grid, with
\* config_id the index of the configuration in the grid, and the rows and
\* their values do not depend on the batch size: each row holds what its
\* configuration yields on its own.
C20_OneRowPerConfig ==
    sweep_pc = "done" =>
        /\ \A s \in ProcessedSymbols, j \in 1..Len(strategies) :
              \A k \in 0..(Len(GenerateConfigs(strategies[j])) - 1) :
                  /\ Cardinality(RowsOf(s, strategies[j], k)) = 1
                  /\ \A i \in RowsOf(s, strategies[j], k) :
                        \E ref \in {ReferenceSignals(strategies[j],
                                        GenerateConfigs(strategies[j])[k + 1])} :
                            /\ all_results[i].params
                                  = GenerateConfigs(strategies[j])[k + 1]
                            /\ all_results[i].entry = ref.entry
                            /\ all_results[i].exit = ref.exit
        /\ \A i \in 1..Len(all_results) :
              /\ all_results[i].symbol \in ProcessedSymbols
              /\ \E j \in 1..Len(strategies) :
                    /\ all_results[i].strategy_type = strategies[j]
                    /\ all_results[i].config_id
                          \in 0..(Len(GenerateConfigs(strategies[j])) - 1)

\* C20 witness: a finished sweep of two families over a processed and a
\* skipped symbol, with a batch size below the size of the grids
C20_Witness ==
    /\ sweep_pc = "done"
    /\ Len(strategies) = 2
    /\ batch_size < Len(GenerateConfigs(strategies[1]))
    /\ ProcessedSymbols # {}
    /\ ProcessedSymbols # 1..Len(symbols)
    /\ Len(all_results) > batch_size

\* the number of fills of a configuration at the bars 0..b
FillsUpTo(fills, c, b) == Cardinality({k \in 0..b : fills[c][k]})

\* C28: in every run of position_scan_with_fills_gpu the entry fills and
\* exit fills of a configuration strictly alternate starting with an entry
\* and never fall on the same bar, so entries minus exits is the final
\* position (0 or 1); the trade count and the win-rate and profit-factor
\* replays see every exit fill preceded by its own entry fill, and a
\* position still open at the last bar is not counted as a trade.
C28_FillsAlternate ==
    ScanStarted =>
        \A c \in Configs :
            /\ \A b \in Bars : ~(entry_bars[c][b] /\ exit_bars[c][b])
            /\ \A b \in 0..(t - 1) :
                  /\ FillsUpTo(entry_bars, c, b) - FillsUpTo(exit_bars, c, b)
                        = position[c][b]
                  /\ position[c][b] \in {0, 1}
            /\ \A x \in Bars :
                  exit_bars[c][x] =>
                     \E e \in 0..(x - 1) :
                        /\ entry_bars[c][e]
                        /\ \A m \in (e + 1)..(x - 1) :
                              ~entry_bars[c][m] /\ ~exit_bars[c][m]
            /\ trade_stats # <<>> =>
                  /\ trade_stats[c].num_trades = FillsUpTo(exit_bars, c, num_bars - 1)
                  /\ trade_stats[c].win_rate.den
                        = IF trade_stats[c].num_trades = 0 THEN 1
                          ELSE trade_stats[c].num_trades
                  /\ FillsUpTo(entry_bars, c, num_bars - 1) - trade_stats[c].num_trades
                        = position[c][num_bars - 1]

\* C28 witness: a finished run with two entry fills and one exit fill, the
\* second position still open at the last bar and counted as no trade
C28_Witness ==
    /\ scan_pc = "done"
    /\ trade_stats # <<>>
    /\ \E c \in Configs :
          /\ FillsUpTo(entry_bars, c, num_bars - 1) = 2
          /\ trade_stats[c].num_trades = 1
          /\ position[c][num_bars - 1] = 1

(***************************************************************************)
(* Claims about the five-bar scenario (checked under SpecScenario)         *)
(***************************************************************************)
\* the scenario has been simulated and its trades replayed: fee 0, quantity 1,
\* entry signal at bar 0 only, exit signal at bar 2 only
ScenarioRun ==
    /\ scan_pc = "done"
    /\ trade_stats # <<>>
    /\ fees_bps = 0
    /\ qty_per_trade = 1
    /\ entry_signals[1] = [b \in Bars |-> b = 0]
    /\ exit_signals[1] = [b \in Bars |-> b = 2]

\* the equity the scenario is said to produce from an initial cash of 1000
ScenarioEquity == <<1000, 1000, 998, 998 + 108, 1000 + 7>>

\* C21: in the five-bar scenario the simulator fills to Long at the open of
\* bar 1 and to Flat at the open of bar 3, the equity is
\* [1000, 1000, 998, 998+108, 1000+7], and the run is one completed trade
\* with net P&L 3 and a win rate of 100%.
C21_ScenarioAsStated ==
    ScenarioRun =>
        /\ entry_bars[1] = [b \in Bars |-> b = 1]
        /\ exit_bars[1] = [b \in Bars |-> b = 3]
        /\ equity[1] = [b \in Bars |-> ScenarioEquity[b + 1] * FeeScale]
        /\ trade_stats[1].num_trades = 1
        /\ trade_stats[1].gross_profit = 3 * FeeScale
        /\ trade_stats[1].gross_loss = 0
        /\ trade_stats[1].win_rate = [num |-> 1, den |-> 1]

(***************************************************************************)
(* Claims about the kernels and their reference loops (SpecKernels)        *)
(***************************************************************************)
\* what supertrend_kernel and supertrend_gpu have returned so far
TrendBandResults ==
    IF kern_args = <<>> THEN {}
    ELSE IF kern_args.kind # "supertrend" THEN {}
    ELSE {r.value : r \in {r \in {kern_out, ref_out} : r # <<>>}}

\* the bars after the first valid bar
BarsAfterStart == {b \in 0..(kern_args.n - 1) : b > kern_args.window - 1}

\* C22 (as stated): at every bar after the first valid bar the final upper
\* band is at most the previous bar's final upper band and the final lower
\* band is at least the previous bar's final lower band.
C22_BandsOnlyTighten ==
    \A r \in TrendBandResults : \A b \in BarsAfterStart :
        /\ ~FLess(r.upper[b - 1], r.upper[b])
        /\ ~FLess(r.lower[b], r.lower[b - 1])

\* C22 (amended): at every bar after the first valid bar the final upper
\* band is at most the previous bar's final upper band unless the previous
\* close was above that band, and the final lower band is at least the
\* previous bar's final lower band unless the previous close was below it.
C22_BandsTightenUnlessBroken ==
    \A r \in TrendBandResults : \A b \in BarsAfterStart :
        /\ FLess(r.upper[b - 1], r.upper[b])
              => FLess(r.upper[b - 1], kernelClose[b - 1])
        /\ FLess(r.lower[b], r.lower[b - 1])
              => FLess(kernelClose[b - 1], r.lower[b - 1])

\* C22 witness: kernel and reference loop have both run, and the result has
\* a bar where the upper band is kept although the basic band has risen and a
\* bar where it rises after the close broke above it
C22_Witness ==
    /\ Cardinality(TrendBandResults) >= 1
    /\ kern_out # <<>> /\ ref_out # <<>>
    /\ \E r \in TrendBandResults : \E b \in BarsAfterStart, c \in BarsAfterStart :
          /\ r.upper[b] = r.upper[b - 1]
          /\ FLess(kernelHigh[b - 1], kernelHigh[b])
          /\ FLess(r.upper[c - 1], r.upper[c])
          /\ FLess(r.upper[c - 1], kernelClose[c - 1])

\* ema_kernel has returned
EmaReturned ==
    /\ kern_args # <<>>
    /\ kern_out # <<>>
    /\ kern_args.kind = "ema"

\* C23: exponential smoothing with window w leaves bars 0..w-2 unknown, sets
\* bar w-1 to the mean of the first w inputs and every later bar t to
\* k * input[t] + (1 - k) * EMA[t-1] with k = 2 / (w + 1); for w = 3 over
\* [1,2,3,4,5,6] the result is unknown, unknown, 2, 3, 4, 5.
C23_SmoothingRecurrence ==
    EmaReturned =>
        /\ \A b \in 0..(kern_args.n - 1) :
              \E w \in {kern_args.window}, ema \in {kern_out.value} :
                 /\ b < w - 1 => IsNan(ema[b])
                 /\ b = w - 1 =>
                       /\ ~IsNan(ema[b])
                       /\ FScale(ema[b], w, 1) = SumOf(kernelClose, 0, w - 1)
                 /\ b > w - 1 =>
                       /\ ~IsNan(ema[b])
                       /\ FScale(ema[b], w + 1, 1)
                             = FAdd(FScale(kernelClose[b], 2, 1),
                                    FScale(ema[b - 1], w - 1, 1))
        /\ (kern_args.close = SmoothingExample /\ kern_args.window = 3) =>
              kern_out.value = [b \in 0..5 |-> IF b < 2 THEN NanValue ELSE Whole(b)]

\* C23 witness: the kernel has smoothed [1,2,3,4,5,6] with window 3
C23_Witness ==
    /\ EmaReturned
    /\ kern_args.close = SmoothingExample
    /\ kern_args.window = 3
    /\ kern_out.value[5] = Whole(5)

\* C24: for the same inputs and window, each kernel (exponential smoothing,
\* Wilder smoothing of true range, rolling max, RSI, rolling standard
\* deviation, trend-band) and its reference loop produce the same
\* unknown/known pattern and the same value at every bar, for every number
\* of bars including those at or below the window.
C24_KernelMatchesReference ==
    (kern_out # <<>> /\ ref_out # <<>>) =>
        /\ ~kern_out.raised
        /\ ~ref_out.raised
        /\ kern_out.value = ref_out.value

\* C25: the trend flag is down at the first valid bar; from down it becomes
\* up at bar t exactly when close[t] > final upper band[t]; from up it
\* becomes down at bar t exactly when close[t] < final lower band[t]; and at
\* every valid bar the trend-band line is the final lower band while the
\* flag is up and the final upper band while it is down.
C25_TrendFlagFlips ==
    \A r \in TrendBandResults :
        /\ kern_args.window - 1 \in 0..(kern_args.n - 1)
              => ~r.direction[kern_args.window - 1]
        /\ \A b \in BarsAfterStart :
              /\ ~r.direction[b - 1]
                    => (r.direction[b] <=> FLess(r.upper[b], kernelClose[b]))
              /\ r.direction[b - 1]
                    => (~r.direction[b] <=> FLess(kernelClose[b], r.lower[b]))
        /\ \A b \in 0..(kern_args.n - 1) :
              b >= kern_args.window - 1 =>
                 /\ ~IsNan(r.st[b])
                 /\ r.st[b] = IF r.direction[b] THEN r.lower[b] ELSE r.upper[b]

\* C25 witness: a result whose flag goes up, stays up on a close equal to the
\* lower band or above it, and comes down again
C25_Witness ==
    \E r \in TrendBandResults : \E b \in BarsAfterStart, c \in BarsAfterStart :
        /\ b < c
        /\ ~r.direction[b - 1] /\ r.direction[b]
        /\ r.direction[c - 1] /\ ~r.direction[c]
        /\ \E e \in BarsAfterStart :
              r.direction[e - 1] /\ r.direction[e] /\ r.lower[e] = kernelClose[e]

(***************************************************************************)
(* Claims about _running_max_gpu (checked under SpecRunningMax)            *)
(***************************************************************************)
\* C26: _running_max_gpu returns, for every bar t of a row, the maximum of
\* the row's values at bars 0..t, for every number of bars including 0, 1
\* and lengths that are not powers of two.
C26_RunningMaxIsPrefixMax ==
    running_max.called =>
        /\ Len(running_max.result) = Len(running_max.arr)
        /\ \A k \in 1..Len(running_max.arr) :
              /\ \E j \in 1..k : running_max.result[k] = running_max.arr[j]
              /\ \A j \in 1..k : running_max.arr[j] <= running_max.result[k]

\* C26 witness: a row of five bars whose peak is at the first bar, so that
\* the last bar takes it through the shifts by 1, 2 and 4
C26_Witness ==
    /\ running_max.called
    /\ Len(running_max.arr) = 5
    /\ \A j \in 2..5 : running_max.arr[j] < running_max.arr[1]
    /\ running_max.result[5] = running_max.arr[1]

(***************************************************************************)
(* Claims about a batch (checked under SpecBatch)                          *)
(***************************************************************************)
\* C27: ensure_computed is idempotent: the second call with the same
\* request on the same cache, which compute_signals_batched makes after
\* _run_strategy_batch has made the first, performs no computation and
\* leaves every cache entry unchanged.
C27_SecondEnsureIdempotent ==
    [][(batch_pc = "ensured" /\ batch_pc' # "ensured") =>
          /\ compute_log' = {}
          /\ cache' = cache
          /\ writes' = writes]_vars

\* C27 witness: the signal generator has finished after the engine's call
\* filled the cache with several entries, and its own call computed nothing
C27_Witness ==
    /\ batch_pc = "done"
    /\ compute_log = {}
    /\ Cardinality(DOMAIN cache) >= 2

\* C29: unknown values do not outlast warm-up in second-stage indicators:
\* MACD_SIGNAL(fast, slow, signal) is known at every bar t >= slow+signal-2
\* and STOCHASTIC_D(k, d) is known at every bar t >= k+d-2.
C29_SecondStageKnown ==
    \A spec \in DOMAIN cache :
        /\ spec.type = "MACD_SIGNAL" =>
              \A b \in Bars :
                  b >= spec.params[2] + spec.params[3] - 2 => IsKnown(cache[spec][b])
        /\ spec.type = "STOCHASTIC_D" =>
              \A b \in Bars :
                  b >= spec.params[1] + spec.params[2] - 2 => IsKnown(cache[spec][b])

\* the batch went through the final else of compute_signals_batched: no
\* identifier was collected for it and every row is the all-false row
FellThrough ==
    /\ batch_pc = "done"
    /\ CollectStrategyIndicators(strategy_name, configs) = {}
    /\ strategy_name \notin BatchedFamilies
    /\ \A i \in 1..Len(configs) : entry_out[i] = Zeros /\ exit_out[i] = Zeros

\* C30: every strategy family accepted by the parameter-grid registry has an
\* indicator-collection rule and a batched signal generator: no registered
\* family falls through to the all-false "unknown strategy" signals.
C30_RegisteredFamiliesGenerate ==
    strategy_name \in StrategyParamsRegistry => ~FellThrough

====
